---------------------------- MODULE Spec2Model ----------------------------
(***************************************************************************)
(* Model of the community service (src/server.js and the earlier builds    *)
(* kept in src/unnamed/part_000): the Reddit discussion search with its    *)
(* two timeout layers, and the RateMyProfessors lookup with its cache.     *)
(*                                                                         *)
(* Strings are TLC strings; a character is a string of length 1.  Times of *)
(* the discussion search are in seconds (Date.now() is taken at a whole    *)
(* second), times of the profile lookup are in milliseconds.               *)
(*                                                                         *)
(* Six specifications share the state: SpecReddit (one discussion          *)
(* request and its subreddit searches), SpecCache (rmpSet and rmpGet       *)
(* called at arbitrary times), SpecRmp (profile lookups, possibly          *)
(* concurrent, of either build) and SpecFn (the pure functions of the      *)
(* builds, each applied to inputs drawn from small sets); SpecApi puts the *)
(* discussion request and the lookups side by side; SpecLive is one        *)
(* request of either route with the fairness of the event loop's timers.   *)
(***************************************************************************)
EXTENDS Integers, Sequences, FiniteSets, TLC

VARIABLES
    \* ---- discussion search (one request of /api/reddit/search or /answer)
    nowSec,      \* Date.now() / 1000
    rq,          \* the request being served, or NoReq
    tasks,       \* searchReddit's per-subreddit tasks, by position in the list
    search,      \* the promise returned by searchReddit
    overall,     \* withTimeout(searchReddit(...), 6000, "overall")
    responses,   \* what the handler sent on res, in order
    evts,        \* history: order in which searchReddit settled / the 6s timer fired
    ticks,       \* history: clock steps taken (bounds the run)
    \* ---- profile lookup (/api/rmp) and its response cache
    nowMs,       \* Date.now()
    cache,       \* RMP_CACHE: key -> [ts, data]
    lastOp,      \* history: the last direct call of rmpGet / rmpSet, the map before it
    reqs,        \* the profile-lookup requests being served, by request number
    rmpTicks,    \* history: clock steps taken (bounds the run)
    \* ---- the pure functions of the builds, applied one at a time
    probe        \* the last application: the function, its arguments, its result

redditVars == <<nowSec, rq, tasks, search, overall, responses, evts, ticks>>

rmpVars == <<nowMs, cache, lastOp, reqs, rmpTicks>>

vars == <<nowSec, rq, tasks, search, overall, responses, evts, ticks,
          nowMs, cache, lastOp, reqs, rmpTicks, probe>>

-----------------------------------------------------------------------------
(* Bounds of the model *)

MaxForums == 2      \* subreddits named in SUBREDDITS
MaxListing == 2     \* posts one subreddit search returns
MaxTicks == 4       \* clock steps within one discussion request
MaxCacheOps == 3    \* calls of rmpGet / rmpSet in one run of the cache
MaxCacheTicks == 3  \* clock steps in one run of the cache
MaxAnchors == 2     \* anchors on one search page
MaxRmpReqs == 2     \* profile lookups in one run
MaxRmpTicks == 2     \* clock steps in one run of the profile lookup
MaxProbeAnchors == 2 \* anchors on a search page the pure functions are applied to
MaxProbePool == 3    \* candidates in a pool the scoring is applied to

(* Program constants *)

SearchLimitCap == 50
SearchLimitDefault == 20
AnswerLimitCap == 20
AnswerLimitDefault == 8
WindowDaysDefault == 540
PerCallTimeoutMs == 4000
OverallTimeoutMs == 6000
SecondsPerDay == 86400
TopicKeywordPoints == 5
ExactMatchPoints == 10
RecencyMaxPoints == 10
RecencyDaysPerPoint == 30
SummaryPosts == 5
HoursPerDay == 24
MsPerHour == 3600000
RmpOverallTimeoutMs == 20000
SleepAfterGotoMs == 900
WaitForSelectorMs == 15000
FetchTimeoutMs == 12000
EnrichFirst == 3
ExactNamePoints == 3
PrefixNamePoints == 2
RatingsPointsCap == 2
RatingsPerPoint == 10
DaysPerWeek == 7
DaysPerMonth == 30
WeeksShown == 8
MonthsShown == 18
DaysPerYear == 365

-----------------------------------------------------------------------------
(* JavaScript string primitives *)

Min(a, b) == IF a <= b THEN a ELSE b
Max(a, b) == IF a >= b THEN a ELSE b

CharAt(s, i) == SubSeq(s, i, i)

UpperLetters == "ABCDEFGHIJKLMNOPQRSTUVWXYZ"
LowerLetters == "abcdefghijklmnopqrstuvwxyz"

\* the lower-case letter of every upper-case letter
UpperToLower ==
    [c \in {CharAt(UpperLetters, i) : i \in 1..Len(UpperLetters)} |->
        CharAt(LowerLetters, CHOOSE i \in 1..Len(UpperLetters) : CharAt(UpperLetters, i) = c)]

LowerChar(c) == IF c \in DOMAIN UpperToLower THEN UpperToLower[c] ELSE c

\* String.prototype.toLowerCase (by halves, to keep the recursion shallow)
RECURSIVE toLowerCase(_)
toLowerCase(s) ==
    IF Len(s) = 0 THEN ""
    ELSE IF Len(s) = 1 THEN LowerChar(s)
    ELSE LET h == Len(s) \div 2 IN
         toLowerCase(SubSeq(s, 1, h)) \o toLowerCase(SubSeq(s, h + 1, Len(s)))

\* String.prototype.includes
includes(s, k) ==
    \/ k = ""
    \/ \E i \in 1..(Len(s) - Len(k) + 1) : SubSeq(s, i, i + Len(k) - 1) = k

\* String.prototype.startsWith
startsWith(s, k) ==
    Len(k) <= Len(s) /\ SubSeq(s, 1, Len(k)) = k

\* the regular expression class \s, on the characters the inputs use
IsSpace(c) == c = " "

\* first position >= i of s holding the character c; 0 if none
IndexOfFrom(s, c, i) ==
    LET at == {j \in i..Len(s) : CharAt(s, j) = c} IN
    IF at = {} THEN 0 ELSE CHOOSE j \in at : \A k \in at : j <= k

\* s.replace(c, rep) with a string pattern: the first occurrence only
replaceFirst(s, c, rep) ==
    LET i == IndexOfFrom(s, c, 1) IN
    IF i = 0 THEN s
    ELSE SubSeq(s, 1, i - 1) \o rep \o SubSeq(s, i + 1, Len(s))

\* end of the run of whitespace that starts at i
RECURSIVE SpaceRunEnd(_, _)
SpaceRunEnd(s, i) ==
    IF i < Len(s) /\ IsSpace(CharAt(s, i + 1)) THEN SpaceRunEnd(s, i + 1) ELSE i

\* s.replace(/\s+/, rep): the first run of whitespace only
replaceFirstSpaceRun(s, rep) ==
    LET i == IndexOfFrom(s, " ", 1) IN
    IF i = 0 THEN s
    ELSE SubSeq(s, 1, i - 1) \o rep \o SubSeq(s, SpaceRunEnd(s, i) + 1, Len(s))

\* s.replace(/\s+/g, "")
RECURSIVE removeSpaces(_)
removeSpaces(s) ==
    IF Len(s) = 0 THEN ""
    ELSE IF Len(s) = 1 THEN (IF IsSpace(s) THEN "" ELSE s)
    ELSE LET h == Len(s) \div 2 IN
         removeSpaces(SubSeq(s, 1, h)) \o removeSpaces(SubSeq(s, h + 1, Len(s)))

RECURSIVE trimStart(_)
trimStart(s) ==
    IF s # "" /\ IsSpace(Head(s)) THEN trimStart(Tail(s)) ELSE s

RECURSIVE trimEnd(_)
trimEnd(s) ==
    IF s # "" /\ IsSpace(CharAt(s, Len(s))) THEN trimEnd(SubSeq(s, 1, Len(s) - 1)) ELSE s

\* a trim that leaves the spaces
trimKeepsSpaces(s) == s

\* String.prototype.trim
trim(s) == trimEnd(trimStart(s))

\* Array.prototype.slice(0, end) for an integer end
slice0(seq, end) ==
    LET n == Len(seq)
        e == IF end < 0 THEN Max(n + end, 0) ELSE Min(end, n)
    IN SubSeq(seq, 1, e)

RECURSIVE flat(_)
flat(nested) ==
    IF nested = <<>> THEN <<>> ELSE Head(nested) \o flat(Tail(nested))

-----------------------------------------------------------------------------
(* Discussion search: query synthesis, topic inference *)

Topics == {"difficulty", "instructor", "exam", "tips"}

\* topicQuery[topic] || "": topicQuery is an object literal, so a topic that names a
\* property of Object.prototype finds that property (for "constructor", the
\* function Object, which the template string renders as its source text)
topicQuery(topic) ==
    CASE topic = "difficulty" ->
           "(hard OR difficulty OR workload OR easy OR tough OR \"drop rate\" OR curve)"
      [] topic = "instructor" ->
           "(prof OR professor OR teacher OR instructor OR \"who to take\" OR \"best prof\" OR avoid)"
      [] topic = "exam" ->
           "(final OR midterm OR exam OR test OR quiz OR format OR grading OR proctor)"
      [] topic = "tips" ->
           "(tips OR advice OR study OR assignment OR lab OR labs OR resource OR textbook OR notes)"
      [] topic = "constructor" -> "function Object() { [native code] }"
      [] OTHER -> ""

courseVariants(course) ==
    LET compact == removeSpaces(course)
        dashed == replaceFirstSpaceRun(course, "-")
        lower == toLowerCase(course)
    IN "(\"" \o course \o "\" OR " \o compact \o " OR \"" \o dashed \o "\" OR \""
         \o lower \o "\" OR " \o removeSpaces(lower) \o ")"

\* const searchQ = `${courseVariants(course)} AND ${topicQuery[topic] || ""}`
searchQOf(course, topic) == courseVariants(course) \o " AND " \o topicQuery(topic)

InstructorWords == <<"best", "who to take", "avoid", "teacher", "prof", "instructor">>
ExamWords == <<"final", "midterm", "exam", "test", "quiz", "format", "curve", "grading">>
TipsWords == <<"tip", "advice", "study", "assignment", "lab", "labs", "resource", "textbook", "notes">>

\* /(a|b|c)/.test(s)
TestAny(words, s) == \E i \in DOMAIN words : includes(s, words[i])

\* a classifier that tests the exam pattern first
inferTopicExamFirst(q) ==
    LET s == toLowerCase(q) IN
    IF TestAny(ExamWords, s) THEN "exam"
    ELSE IF TestAny(InstructorWords, s) THEN "instructor"
    ELSE IF TestAny(TipsWords, s) THEN "tips"
    ELSE "difficulty"

inferTopicFromQuestion(q) ==
    LET s == toLowerCase(q) IN
    IF TestAny(InstructorWords, s) THEN "instructor"
    ELSE IF TestAny(ExamWords, s) THEN "exam"
    ELSE IF TestAny(TipsWords, s) THEN "tips"
    ELSE "difficulty"

\* sinceDaysToTimestamp(days), with Date.now() = now * 1000
sinceDaysToTimestamp(days, now) == now - days * SecondsPerDay

-----------------------------------------------------------------------------
(* Discussion search: post-processing of searchReddit *)

\* searchQ.match(/"([^"]+)"/g)?.map(s => s.replace(/"/g, "")) || []
RECURSIVE QuotedFrom(_, _)
QuotedFrom(s, i) ==
    LET a == IndexOfFrom(s, "\"", i)
        b == IF a = 0 THEN 0 ELSE IndexOfFrom(s, "\"", a + 1)
    IN IF b = 0 THEN <<>>
       ELSE IF b = a + 1 THEN QuotedFrom(s, b)
       ELSE <<SubSeq(s, a + 1, b - 1)>> \o QuotedFrom(s, b + 1)

courseKeywordsOf(searchQ) == QuotedFrom(searchQ, 1)

topicKeywords ==
    <<"hard", "easy", "difficulty", "review", "tips", "advice", "final", "midterm",
      "prof", "professor", "teacher", "best", "avoid", "recommend">>

\* k => titleLower.includes(k.toLowerCase().replace("-", " "))
keywordInTitle(titleLower, k) ==
    includes(titleLower, replaceFirst(toLowerCase(k), "-", " "))

\* r => courseKeywords.some(k => titleLower.includes(k.toLowerCase().replace("-", " ")))
titleFilter(r, courseKeywords) ==
    LET titleLower == toLowerCase(r.title) IN
    \E i \in DOMAIN courseKeywords : keywordInTitle(titleLower, courseKeywords[i])

\* topicKeywords.forEach(k => { if (titleLower.includes(k)) score += 5; })
topicPoints(titleLower) ==
    TopicKeywordPoints * Cardinality({i \in DOMAIN topicKeywords : includes(titleLower, topicKeywords[i])})

\* if (courseKeywords.some(k => titleLower === k.toLowerCase())) score += 10
exactPoints(titleLower, courseKeywords) ==
    IF \E i \in DOMAIN courseKeywords : titleLower = toLowerCase(courseKeywords[i])
    THEN ExactMatchPoints ELSE 0

\* the points of the title: 5 per topic keyword, 10 for an exact course keyword
titleScore(r, courseKeywords) ==
    LET titleLower == toLowerCase(r.title) IN
    topicPoints(titleLower) + exactPoints(titleLower, courseKeywords)

\* One relevance point is RelUnit: relevance is kept multiplied by the number of
\* seconds in 30 days, so that 10 - daysOld/30 is an integer.
RelUnit == RecencyDaysPerPoint * SecondsPerDay

\* a recency term without the floor at 0
recencyNoFloor(r, now) == RecencyMaxPoints * RelUnit - (now - r.created_utc)

\* Math.max(0, 10 - daysOld / 30), times RelUnit
recencyScore(r, now) == Max(0, RecencyMaxPoints * RelUnit - (now - r.created_utc))

\* Math.round(a / b) for b > 0: the nearest integer, a half rounded up
round(a, b) == (2 * a + b) \div (2 * b)

\* a rendering whose thresholds are on the age in days: weeks up to 8 * 7 days,
\* months up to 18 * 30 days
relTimeByAge(created_utc, now) ==
    LET diff == Max(1, round(now - created_utc, SecondsPerDay)) IN
    IF diff < DaysPerWeek THEN ToString(diff) \o "d ago"
    ELSE IF diff < WeeksShown * DaysPerWeek THEN ToString(round(diff, DaysPerWeek)) \o "w ago"
    ELSE IF diff < MonthsShown * DaysPerMonth
         THEN ToString(round(diff, DaysPerMonth)) \o "mo ago"
    ELSE ToString(round(diff, DaysPerYear)) \o "y ago"

\* relTime(iso) at time now, for the post created at created_utc (created_iso is
\* new Date(created_utc * 1000).toISOString(), read back with new Date(iso))
relTime(created_utc, now) ==
    LET diff == Max(1, round(now - created_utc, SecondsPerDay))
        w == round(diff, DaysPerWeek)
        m == round(diff, DaysPerMonth)
        y == round(diff, DaysPerYear)
    IN IF diff < DaysPerWeek THEN ToString(diff) \o "d ago"
       ELSE IF w < WeeksShown THEN ToString(w) \o "w ago"
       ELSE IF m < MonthsShown THEN ToString(m) \o "mo ago"
       ELSE ToString(y) \o "y ago"

-----------------------------------------------------------------------------
(* Discussion search: inputs of the model *)

NoReq == [route |-> "none"]

\* Date.now() / 1000 when the model starts: day 600 of the model's calendar
Epoch0 == 600 * SecondsPerDay

DaysAgo(d) == Epoch0 - d * SecondsPerDay

\* what the provider can return (id, title, created_utc of snoowrap's submissions)
PostPool ==
    << [id |-> 1, title |-> "CS 1 hard?",  created_utc |-> DaysAgo(10)],
       [id |-> 2, title |-> "Drop rate",   created_utc |-> DaysAgo(20)],
       [id |-> 3, title |-> "cs 1",        created_utc |-> DaysAgo(330)],
       [id |-> 4, title |-> "Lunch menu",  created_utc |-> DaysAgo(10)] >>

RECURSIVE PickFrom(_, _)
\* the subsequences of PostPool[from..] in pool order
PickFrom(from, n) ==
    IF n = 0 \/ from > Len(PostPool) THEN {<<>>}
    ELSE PickFrom(from + 1, n)
         \cup {<<PostPool[from]>> \o rest : rest \in PickFrom(from + 1, n - 1)}

Listings == PickFrom(1, MaxListing)

ForumNames == <<"Concordia", "mcgill", "udem">>

\* process.env.SUBREDDITS split at the commas: a list of distinct forums, or a list
\* that names one forum twice (nothing in the handlers removes a repeated name)
SubLists ==
    {SubSeq(ForumNames, 1, n) : n \in 1..Min(MaxForums, Len(ForumNames))}
    \cup {<<ForumNames[1], ForumNames[1]>>}

CourseInputs == {"CS 1", " "}

\* req.query.topic: "" stands for an absent parameter
TopicInputs == {"", "grades"}

QuestionInputs == {"is it hard", "who's the best prof"}

\* req.query.limit: absent, or a string that Number() reads as the integer n
LimitInputs ==
    {[given |-> FALSE, n |-> 0]} \cup {[given |-> TRUE, n |-> n] : n \in {-1, 1}}

\* req.query.windowDays: absent, or a string that Number() reads as the integer n
WindowInputs == {[given |-> FALSE, n |-> 0], [given |-> TRUE, n |-> 30]}

\* Number(req.query.windowDays || 540)
windowDaysOf(w) == IF w.given THEN w.n ELSE WindowDaysDefault

\* Math.min(cap, Number(req.query.limit || dflt))
limitOf(l, cap, dflt) == Min(cap, IF l.given THEN l.n ELSE dflt)

\* the topics, courses and search expressions the inputs above lead to
RequestTopics ==
    {trim(IF t = "" THEN "difficulty" ELSE t) : t \in TopicInputs}
    \cup {inferTopicFromQuestion(trim(q)) : q \in QuestionInputs}

RequestCourses == {trim(c) : c \in CourseInputs} \ {""}

\* titles, courses and topics the scoring functions are applied to on their own: a
\* title that is a spelling of the course, titles with topic keywords, a title that
\* is a quoted phrase of a topic clause, a title that only contains the course
ProbeTitles ==
    {"cs 1", "CS 1 hard?", "cs 1 final tips", "CS-1", "Drop rate", "Best prof", "my cs 1 professor"}

ProbeCourses == {"CS 1", "CS  1 A"}

ProbeTopics == {"difficulty", "instructor", "grades"}

QuerySet ==
    {searchQOf(c, t) : c \in RequestCourses, t \in RequestTopics}
    \cup {searchQOf(c, t) : c \in ProbeCourses, t \in ProbeTopics}

TitleSet == {PostPool[i].title : i \in DOMAIN PostPool} \cup ProbeTitles

\* titleFilter and titleScore on every title and search expression of the model,
\* computed once (the operators themselves are applied, only their results are kept)
titleFilterTable ==
    [q \in QuerySet |-> [t \in TitleSet |-> titleFilter([title |-> t], courseKeywordsOf(q))]]

titleScoreTable ==
    [q \in QuerySet |-> [t \in TitleSet |-> titleScore([title |-> t], courseKeywordsOf(q))]]

\* let score = (title points) + Math.max(0, 10 - daysOld / 30)
relevanceOf(r, searchQ, now) ==
    titleScoreTable[searchQ][r.title] * RelUnit + recencyScore(r, now)

\* results.filter(titleFilter).map(r => ({ ...r, relevance: score }))
RECURSIVE filterAndScore(_, _, _)
filterAndScore(seq, searchQ, now) ==
    IF seq = <<>> THEN <<>>
    ELSE LET r == Head(seq)
             rest == filterAndScore(Tail(seq), searchQ, now)
         IN IF titleFilterTable[searchQ][r.title]
            THEN <<[id |-> r.id, subreddit |-> r.subreddit, title |-> r.title,
                    created_utc |-> r.created_utc,
                    relevance |-> relevanceOf(r, searchQ, now)]>> \o rest
            ELSE rest

\* an insertion that puts x before the elements of equal relevance
RECURSIVE InsertBeforeEqual(_, _)
InsertBeforeEqual(sorted, x) ==
    IF sorted = <<>> THEN <<x>>
    ELSE IF Head(sorted).relevance > x.relevance
         THEN <<Head(sorted)>> \o InsertBeforeEqual(Tail(sorted), x)
         ELSE <<x>> \o sorted

\* insert x after every element whose relevance is >= x's (stable, descending)
RECURSIVE InsertByRelevance(_, _)
InsertByRelevance(sorted, x) ==
    IF sorted = <<>> THEN <<x>>
    ELSE IF Head(sorted).relevance >= x.relevance
         THEN <<Head(sorted)>> \o InsertByRelevance(Tail(sorted), x)
         ELSE <<x>> \o sorted

\* results.sort((a, b) => b.relevance - a.relevance): Array.prototype.sort is stable
RECURSIVE sortByRelevance(_)
sortByRelevance(seq) ==
    IF seq = <<>> THEN <<>>
    ELSE InsertByRelevance(sortByRelevance(SubSeq(seq, 1, Len(seq) - 1)), seq[Len(seq)])

\* searchReddit after `await Promise.all(tasks)`: flatten, filter, score, sort, slice
\* (afterTs is a parameter of searchReddit that its body never reads)
searchRedditResult(nested, searchQ, afterTs, limit, now) ==
    slice0(sortByRelevance(filterAndScore(flat(nested), searchQ, now)), limit)

-----------------------------------------------------------------------------
(* Discussion search: promises and timers *)

\* Promise.race([promise, timer]) in withTimeout: the first to settle wins
\* a race that every later settlement overrides
RaceLastWins(cur, ev) == ev

RaceSettle(cur, ev) == IF cur = "pending" THEN ev ELSE cur

\* a task without the try/catch: a failure rejects the task
taskOutcomeNoCatch(ev, posts) ==
    IF ev = "fulfilled" THEN [state |-> "fulfilled", value |-> posts]
    ELSE [state |-> "rejected", value |-> <<>>]

\* the try/catch around one subreddit's search: a failure returns []
taskOutcome(ev, posts) ==
    IF ev = "fulfilled" THEN [state |-> "fulfilled", value |-> posts]
    ELSE [state |-> "fulfilled", value |-> <<>>]

\* Promise.all(tasks)
promiseAll(ts) ==
    IF \E i \in DOMAIN ts : ts[i].state = "rejected" THEN "rejected"
    ELSE IF \E i \in DOMAIN ts : ts[i].state = "pending" THEN "pending"
    ELSE "fulfilled"

\* listing.map(p => ({id, subreddit: `r/${sub}`, title, ..., created_utc}))
mapListing(listing, sub) ==
    [i \in DOMAIN listing |->
        [id |-> listing[i].id, subreddit |-> "r/" \o sub,
         title |-> listing[i].title, created_utc |-> listing[i].created_utc]]

\* seconds of a timer set with setTimeout(..., ms)
TimerSec(ms) == ms \div 1000

\* one task of subreddits.map(async (sub) => ...): where it stands (phase), the race
\* of its search against its timer, the call to the provider, and what it returned
NewTask ==
    [phase |-> "getSubreddit", race |-> "pending", deadline |-> 0,
     call |-> "none", state |-> "pending", value |-> <<>>]

\* res.json(...) / res.status(504).json(...) of the two discussion routes
okResponse(route, posts) ==
    [status |-> 200, count |-> Len(posts),
     posts |-> IF route = "answer" THEN slice0(posts, SummaryPosts) ELSE posts]

errResponse(status) == [status |-> status, count |-> 0, posts |-> <<>>]

\* What follows a change of the tasks: when the last one settles, Promise.all
\* resolves, searchReddit computes its result, the outer race settles and the
\* handler answers, all in the same turn of the event loop.
AfterTasks(ts) ==
    LET all == promiseAll(ts)
        nested == [i \in DOMAIN ts |-> ts[i].value]
        result == IF all = "fulfilled"
                  THEN searchRedditResult(nested, rq.searchQ, rq.afterTs, rq.limit, nowSec)
                  ELSE <<>>
        race1 == RaceSettle(overall.race, all)
    IN /\ tasks' = ts
       /\ IF search.state = "pending" /\ all # "pending"
          THEN /\ search' = [state |-> all, value |-> result]
               /\ evts' = Append(evts, "search")
               /\ overall' = [overall EXCEPT !.race = race1]
               /\ responses' =
                    IF race1 = overall.race THEN responses
                    ELSE IF race1 = "fulfilled"
                         THEN Append(responses, okResponse(rq.route, result))
                         ELSE Append(responses, errResponse(504))
          ELSE UNCHANGED <<search, overall, responses, evts>>

\* one subreddit task's race settles with ev (its search returned posts, threw or
\* timed out); a race that is already settled ignores the event
SettleTask(t, ev, posts) ==
    LET race1 == RaceSettle(t.race, ev) IN
    IF race1 = t.race THEN t
    ELSE LET out == taskOutcome(race1, posts) IN
         [t EXCEPT !.race = race1, !.deadline = 0, !.state = out.state, !.value = out.value]

-----------------------------------------------------------------------------
(* The response cache of the profile lookup *)

\* JavaScript null
Null == [null |-> TRUE]

RMP_TTL_MS == HoursPerDay * MsPerHour

\* a key built from the name as given: letter case kept
rmpKeyCaseKept(name, all) == name \o "|all:" \o (IF all THEN "1" ELSE "0")

\* `${name.toLowerCase()}|all:${all ? 1 : 0}`
rmpKey(name, all) == toLowerCase(name) \o "|all:" \o (IF all THEN "1" ELSE "0")

\* Map.prototype.delete
mapDelete(c, k) == [x \in DOMAIN c \ {k} |-> c[x]]

\* a set that keeps the entry a key already has
mapSetKeepsFirst(c, k, v) == IF k \in DOMAIN c THEN c ELSE [x \in DOMAIN c \cup {k} |-> IF x = k THEN v ELSE c[x]]

\* Map.prototype.set
mapSet(c, k, v) == [x \in DOMAIN c \cup {k} |-> IF x = k THEN v ELSE c[x]]

\* a lookup that, on finding a stale entry, drops every stale entry of the map
rmpGetSweep(c, name, all, now) ==
    LET k == rmpKey(name, all) IN
    IF k \in DOMAIN c /\ now - c[k].ts < RMP_TTL_MS THEN [cache |-> c, value |-> c[k].data]
    ELSE IF k \in DOMAIN c
         THEN [cache |-> [x \in {y \in DOMAIN c : now - c[y].ts < RMP_TTL_MS} |-> c[x]],
               value |-> Null]
         ELSE [cache |-> c, value |-> Null]

\* a lookup that still serves an entry whose age is exactly the TTL
rmpGetInclusive(c, name, all, now) ==
    LET k == rmpKey(name, all) IN
    IF k \in DOMAIN c /\ now - c[k].ts <= RMP_TTL_MS THEN [cache |-> c, value |-> c[k].data]
    ELSE IF k \in DOMAIN c THEN [cache |-> mapDelete(c, k), value |-> Null]
         ELSE [cache |-> c, value |-> Null]

\* rmpGet(name, all) at time now: the value it returns and the map it leaves
rmpGet(c, name, all, now) ==
    LET k == rmpKey(name, all) IN
    IF k \in DOMAIN c /\ now - c[k].ts < RMP_TTL_MS THEN [cache |-> c, value |-> c[k].data]
    ELSE IF k \in DOMAIN c THEN [cache |-> mapDelete(c, k), value |-> Null]
         ELSE [cache |-> c, value |-> Null]

\* an rmpSet that stores nothing
rmpSetNothing(c, name, all, data, now) == c

\* rmpSet(name, all, data) at time now: the map it leaves
rmpSet(c, name, all, data, now) == mapSet(c, rmpKey(name, all), [ts |-> now, data |-> data])

\* no cache call yet
NoOp == [seq |-> 0, op |-> "none", name |-> "", all |-> FALSE, at |-> 0,
         data |-> Null, value |-> Null, before |-> <<>>]

\* the record of a call of rmpSet
SetOp(name, all, data) ==
    [seq |-> lastOp.seq + 1, op |-> "set", name |-> name, all |-> all, at |-> nowMs,
     data |-> data, value |-> Null, before |-> cache]

\* the record of a call of rmpGet that returned value
GetOp(name, all, value) ==
    [seq |-> lastOp.seq + 1, op |-> "get", name |-> name, all |-> all, at |-> nowMs,
     data |-> Null, value |-> value, before |-> cache]

\* no request has arrived, the cache is the empty Map of module load
\* no function applied yet
NoProbe == [fn |-> "none"]

Init ==
    /\ nowSec = Epoch0
    /\ rq = NoReq
    /\ tasks = <<>>
    /\ search = [state |-> "pending", value |-> <<>>]
    /\ overall = [race |-> "pending", timer |-> "none", deadline |-> 0]
    /\ responses = <<>>
    /\ evts = <<>>
    /\ ticks = 0
    /\ nowMs = 0
    /\ cache = <<>>
    /\ lastOp = NoOp
    /\ reqs = <<>>
    /\ rmpTicks = 0
    /\ probe = NoProbe

-----------------------------------------------------------------------------
(* The cache on its own: calls of rmpSet and rmpGet at arbitrary times *)

NameInputs == {"Ann Lee", "ann lee", "Bo Li"}

\* the clock steps: one millisecond, and one millisecond short of the TTL
CacheTickSteps == {1, RMP_TTL_MS - 1}

\* rmpSet(name, all, data) with a fresh object as data
CacheSet(name, all) ==
    /\ lastOp.seq < MaxCacheOps
    /\ LET data == [obj |-> lastOp.seq + 1] IN
       /\ cache' = rmpSet(cache, name, all, data, nowMs)
       /\ lastOp' = SetOp(name, all, data)
    /\ UNCHANGED <<nowMs, reqs, rmpTicks>>
    /\ UNCHANGED <<redditVars, probe>>

\* rmpGet(name, all)
CacheGet(name, all) ==
    /\ lastOp.seq < MaxCacheOps
    /\ LET got == rmpGet(cache, name, all, nowMs) IN
       /\ cache' = got.cache
       /\ lastOp' = GetOp(name, all, got.value)
    /\ UNCHANGED <<nowMs, reqs, rmpTicks>>
    /\ UNCHANGED <<redditVars, probe>>

\* time passes
CacheTick(d) ==
    /\ rmpTicks < MaxCacheTicks
    /\ nowMs' = nowMs + d
    /\ rmpTicks' = rmpTicks + 1
    /\ UNCHANGED <<cache, lastOp, reqs>>
    /\ UNCHANGED <<redditVars, probe>>

NextCache ==
    \/ \E name \in NameInputs, all \in BOOLEAN : CacheSet(name, all)
    \/ \E name \in NameInputs, all \in BOOLEAN : CacheGet(name, all)
    \/ \E d \in CacheTickSteps : CacheTick(d)

SpecCache == Init /\ [][NextCache]_vars

-----------------------------------------------------------------------------
(* Discussion search: the actions *)

\* GET /api/reddit/search and GET /api/reddit/answer, up to the first await
Request(route, courseIn, topicIn, questionIn, limitIn, windowIn, subs) ==
    /\ rq = NoReq
    /\ LET course == trim(courseIn)
           topic == IF route = "search"
                    THEN trim(IF topicIn = "" THEN "difficulty" ELSE topicIn)
                    ELSE inferTopicFromQuestion(trim(questionIn))
           limit == IF route = "search"
                    THEN limitOf(limitIn, SearchLimitCap, SearchLimitDefault)
                    ELSE limitOf(limitIn, AnswerLimitCap, AnswerLimitDefault)
       IN IF course = ""
          THEN /\ rq' = [route |-> route, course |-> course, topic |-> topic, limit |-> limit,
                         subs |-> <<>>, searchQ |-> "", afterTs |-> 0]
               /\ responses' = Append(responses, errResponse(400))
               /\ UNCHANGED <<tasks, overall>>
          ELSE /\ rq' = [route |-> route, course |-> course, topic |-> topic, limit |-> limit,
                         subs |-> subs, searchQ |-> searchQOf(course, topic),
                         afterTs |-> sinceDaysToTimestamp(windowDaysOf(windowIn), nowSec)]
               /\ tasks' = [i \in DOMAIN subs |-> NewTask]
               /\ overall' = [race |-> "pending", timer |-> "armed",
                              deadline |-> nowSec + TimerSec(OverallTimeoutMs)]
               /\ UNCHANGED responses
    /\ UNCHANGED <<nowSec, search, evts, ticks>>
    /\ UNCHANGED <<rmpVars, probe>>

\* `await reddit.getSubreddit(sub)` resolves: the search is issued under its own timer
GetSubredditOk(i) ==
    /\ i \in DOMAIN tasks
    /\ tasks[i].phase = "getSubreddit"
    /\ tasks' = [tasks EXCEPT ![i] = [@ EXCEPT !.phase = "search", !.call = "inflight",
                                        !.deadline = nowSec + TimerSec(PerCallTimeoutMs)]]
    /\ UNCHANGED <<nowSec, rq, search, overall, responses, evts, ticks>>
    /\ UNCHANGED <<rmpVars, probe>>

\* `await reddit.getSubreddit(sub)` throws: caught, the task returns []
GetSubredditThrows(i) ==
    /\ i \in DOMAIN tasks
    /\ tasks[i].phase = "getSubreddit"
    /\ AfterTasks([tasks EXCEPT ![i] = SettleTask([@ EXCEPT !.phase = "search"], "rejected", <<>>)])
    /\ UNCHANGED <<nowSec, rq, ticks>>
    /\ UNCHANGED <<rmpVars, probe>>

\* subreddit.search(...) resolves with a listing (possibly after its timer fired)
SearchReturns(i, listing) ==
    /\ i \in DOMAIN tasks
    /\ tasks[i].call = "inflight"
    /\ AfterTasks([tasks EXCEPT ![i] =
            SettleTask([@ EXCEPT !.call = "returned"], "fulfilled",
                       mapListing(listing, rq.subs[i]))])
    /\ UNCHANGED <<nowSec, rq, ticks>>
    /\ UNCHANGED <<rmpVars, probe>>

\* subreddit.search(...) rejects
SearchThrows(i) ==
    /\ i \in DOMAIN tasks
    /\ tasks[i].call = "inflight"
    /\ AfterTasks([tasks EXCEPT ![i] = SettleTask([@ EXCEPT !.call = "threw"], "rejected", <<>>)])
    /\ UNCHANGED <<nowSec, rq, ticks>>
    /\ UNCHANGED <<rmpVars, probe>>

\* the timer of withTimeout(subreddit.search(...), perCallTimeoutMs) fires while the
\* search is pending (fired later, it rejects a race that is settled: no effect)
PerCallTimer(i) ==
    /\ i \in DOMAIN tasks
    /\ tasks[i].phase = "search"
    /\ tasks[i].race = "pending"
    /\ nowSec >= tasks[i].deadline
    /\ AfterTasks([tasks EXCEPT ![i] = SettleTask(@, "rejected", <<>>)])
    /\ UNCHANGED <<nowSec, rq, ticks>>
    /\ UNCHANGED <<rmpVars, probe>>

\* the timer of withTimeout(searchReddit(...), 6000, "overall") fires
OverallTimer ==
    /\ overall.timer = "armed"
    /\ nowSec >= overall.deadline
    /\ LET race1 == RaceSettle(overall.race, "rejected") IN
       /\ overall' = [overall EXCEPT !.timer = "fired", !.race = race1]
       /\ responses' = IF race1 = overall.race THEN responses
                       ELSE Append(responses, errResponse(504))
    /\ evts' = Append(evts, "timer")
    /\ UNCHANGED <<nowSec, rq, tasks, search, ticks>>
    /\ UNCHANGED <<rmpVars, probe>>

\* the step of the clock: half the per-call timeout
TickSec == TimerSec(PerCallTimeoutMs) \div 2

\* time passes; a timer that is due fires before the clock moves on
Tick ==
    /\ rq # NoReq
    /\ ticks < MaxTicks
    /\ ~(overall.timer = "armed" /\ nowSec >= overall.deadline)
    /\ \A i \in DOMAIN tasks :
          ~(tasks[i].phase = "search" /\ tasks[i].race = "pending" /\ nowSec >= tasks[i].deadline)
    /\ \/ overall.timer = "armed"
       \/ \E i \in DOMAIN tasks : tasks[i].state = "pending" \/ tasks[i].call = "inflight"
    /\ nowSec' = nowSec + TickSec
    /\ ticks' = ticks + 1
    /\ UNCHANGED <<rq, tasks, search, overall, responses, evts>>
    /\ UNCHANGED <<rmpVars, probe>>

NextReddit ==
    \/ \E route \in {"search", "answer"}, c \in CourseInputs, t \in TopicInputs,
          q \in QuestionInputs, l \in LimitInputs, w \in WindowInputs, subs \in SubLists :
            Request(route, c, t, q, l, w, subs)
    \/ \E i \in 1..MaxForums : GetSubredditOk(i)
    \/ \E i \in 1..MaxForums : GetSubredditThrows(i)
    \/ \E i \in 1..MaxForums, listing \in Listings : SearchReturns(i, listing)
    \/ \E i \in 1..MaxForums : SearchThrows(i)
    \/ \E i \in 1..MaxForums : PerCallTimer(i)
    \/ OverallTimer
    \/ Tick

SpecReddit == Init /\ [][NextReddit]_vars

-----------------------------------------------------------------------------
(* The profile lookup: extraction, pooling, scoring *)

\* JavaScript null in a field that otherwise holds a string
NoValue == "<null>"

\* An anchor of the search page, as pushFromAnchor reads it: its href, and the
\* values its regular expressions pull out of the anchor and of the text of the
\* enclosing card (NoValue where an expression does not match).
Anchor(href, name, school, dept, quality, difficulty, would, numRatings, txt) ==
    [href |-> href, name |-> name, school |-> school, dept |-> dept, quality |-> quality,
     difficulty |-> difficulty, wouldTakeAgain |-> would, numRatings |-> numRatings,
     blockText |-> txt]

AnchorInputs ==
    <<Anchor("/professor/1", "Ann Lee", "Concordia University", "Physics", "4.5", "3.1",
             "80", "25", "Ann Lee Physics Concordia University 25 ratings"),
      Anchor("/professor/2", "Ann Leeson", "McGill University", NoValue, NoValue, NoValue,
             NoValue, NoValue, "Ann Leeson McGill University"),
      Anchor("/professor/1", "Lee", NoValue, NoValue, "4.5", NoValue,
             NoValue, "7", "Lee QUALITY 4.5 7 ratings")>>

\* the anchors the four selectors return, in order, one list after the other
RECURSIVE AnchorLists(_)
AnchorLists(n) ==
    IF n = 0 THEN {<<>>}
    ELSE AnchorLists(n - 1) \cup
         {Append(l, AnchorInputs[k]) : l \in {x \in AnchorLists(n - 1) : Len(x) = n - 1},
                                       k \in DOMAIN AnchorInputs}

\* a search page: the anchors, and whether it shows a "no results" element
PageInputs ==
    {[anchors |-> l, noResults |-> FALSE] : l \in AnchorLists(MaxAnchors)}
        \cup {[anchors |-> <<>>, noResults |-> TRUE]}

\* found.push({name, school, ..., url: `https://www.ratemyprofessors.com${href}`, blockText})
candidateOf(a) ==
    [name |-> a.name, school |-> a.school, dept |-> a.dept, quality |-> a.quality,
     difficulty |-> a.difficulty, wouldTakeAgain |-> a.wouldTakeAgain,
     numRatings |-> a.numRatings, url |-> "https://www.ratemyprofessors.com" \o a.href,
     blockText |-> a.blockText]

\* an extraction that never looks at seenHref
RECURSIVE pushFromAnchorsNoSeen(_, _, _)
pushFromAnchorsNoSeen(anchors, seenHref, found) ==
    IF anchors = <<>> THEN found
    ELSE LET a == Head(anchors) IN
         IF ~includes(a.href, "/professor/")
         THEN pushFromAnchorsNoSeen(Tail(anchors), seenHref, found)
         ELSE pushFromAnchorsNoSeen(Tail(anchors), seenHref, Append(found, candidateOf(a)))

\* anchors.forEach(pushFromAnchor): an href already seen is skipped
RECURSIVE pushFromAnchors(_, _, _)
pushFromAnchors(anchors, seenHref, found) ==
    IF anchors = <<>> THEN found
    ELSE LET a == Head(anchors) IN
         IF ~includes(a.href, "/professor/") \/ a.href \in seenHref
         THEN pushFromAnchors(Tail(anchors), seenHref, found)
         ELSE pushFromAnchors(Tail(anchors), seenHref \cup {a.href},
                              Append(found, candidateOf(a)))

\* what page.evaluate returns for the search page
extractResults(page) == pushFromAnchors(page.anchors, {}, <<>>)

\* (r.school && /concordia/i.test(r.school)) || /concordia/i.test(r.blockText || "")
isConcordia(r) ==
    \/ r.school # NoValue /\ includes(toLowerCase(r.school), "concordia")
    \/ includes(toLowerCase(r.blockText), "concordia")

\* results.filter(isConcordia)
RECURSIVE filterConcordia(_)
filterConcordia(results) ==
    IF results = <<>> THEN <<>>
    ELSE IF isConcordia(Head(results)) THEN <<Head(results)>> \o filterConcordia(Tail(results))
         ELSE filterConcordia(Tail(results))

\* the pool: every result when all is set, else the Concordia ones, else every result
poolOf(results, all) ==
    IF all THEN results
    ELSE LET conly == filterConcordia(results) IN
         IF conly # <<>> THEN conly ELSE results

\* !r.difficulty || !r.quality || !r.numRatings || !r.dept
missesField(r) ==
    r.difficulty = NoValue \/ r.quality = NoValue \/ r.numRatings = NoValue \/ r.dept = NoValue

\* the positions from i on, within pool.slice(0, 3), of the candidates missing a field
RECURSIVE needsEnrichFrom(_, _)
needsEnrichFrom(pool, i) ==
    IF i > Min(Len(pool), EnrichFirst) THEN <<>>
    ELSE IF missesField(pool[i]) THEN <<i>> \o needsEnrichFrom(pool, i + 1)
         ELSE needsEnrichFrom(pool, i + 1)

\* pool.slice(0, 3).filter(missing a field), as positions in the pool
needsEnrichOf(pool) == needsEnrichFrom(pool, 1)

\* extractResults and poolOf over the pages of the model, computed once
resultsTable == [page \in PageInputs |-> extractResults(page)]

poolTable == [page \in PageInputs |-> [all \in BOOLEAN |-> poolOf(resultsTable[page], all)]]

\* what the profile page adds to a candidate
applyExtra(t, extra) ==
    [t EXCEPT !.quality = IF extra.quality # NoValue THEN extra.quality ELSE @,
              !.numRatings = IF extra.numRatings # NoValue THEN extra.numRatings ELSE @,
              !.wouldTakeAgain = IF extra.wouldTakeAgain # NoValue THEN extra.wouldTakeAgain ELSE @,
              !.difficulty = IF extra.difficulty # NoValue THEN extra.difficulty ELSE @,
              !.dept = IF extra.dept # NoValue /\ @ = NoValue THEN extra.dept ELSE @]

\* req.query.name
RmpNameInputs == {"Ann Lee", " ann lee", " "}

\* what page.evaluate returns for a profile page
ExtraInputs ==
    {[quality |-> "3.9", numRatings |-> "12", wouldTakeAgain |-> "70", difficulty |-> "2.0",
      dept |-> "Chemistry"],
     [quality |-> NoValue, numRatings |-> NoValue, wouldTakeAgain |-> NoValue, difficulty |-> NoValue,
      dept |-> NoValue]}

Digits == "0123456789"

\* the value of a decimal digit character, -1 for any other character
DigitVal(c) ==
    LET hits == {d \in 1..Len(Digits) : CharAt(Digits, d) = c} IN
    IF hits = {} THEN -1 ELSE (CHOOSE d \in hits : TRUE) - 1

\* parseInt(String(v || "").replace(/\D+/g, ""), 10) || 0
RECURSIVE digitsValue(_, _)
digitsValue(str, acc) ==
    IF str = "" THEN acc
    ELSE LET d == DigitVal(CharAt(str, 1)) IN
         digitsValue(SubSeq(str, 2, Len(str)), IF d < 0 THEN acc ELSE acc * 10 + d)

ratingsNumOf(r) == IF r.numRatings = NoValue THEN 0 ELSE digitsValue(r.numRatings, 0)

\* the points of a candidate's name against the query name
namePoints(candName, name) ==
    LET n == toLowerCase(IF candName = NoValue THEN "" ELSE candName)
        nameLc == toLowerCase(name)
    IN (IF n = nameLc THEN ExactNamePoints ELSE 0)
       + (IF startsWith(n, nameLc) THEN PrefixNamePoints ELSE 0)
       + (IF includes(n, nameLc) THEN 1 ELSE 0)

\* rating points without the cap of 2
ratingsPointsUncapped(ratingsNum) ==
    ratingsNum \div RatingsPerPoint + (IF ratingsNum > 0 THEN 1 ELSE 0)

\* the points of a candidate's number of ratings
ratingsPoints(ratingsNum) ==
    Min(RatingsPointsCap, ratingsNum \div RatingsPerPoint) + (IF ratingsNum > 0 THEN 1 ELSE 0)

\* namePoints and ratingsNumOf over the names and rating counts of the model,
\* computed once
\* a pooled candidate with this profile number, name and rating count
ProbeCandidate(n, name, numRatings) ==
    candidateOf(Anchor("/professor/" \o n, name, "Concordia University", NoValue, NoValue, NoValue, NoValue, numRatings, name))

\* the candidates the scoring is applied to on its own: the queried name, a longer
\* name, a name that contains the query, other names; counts that are missing,
\* without a digit, below 10, 10, between 20 and 30, and written with a comma
ProbeCandidates ==
    << ProbeCandidate("1", "Ann Lee", "25"),
       ProbeCandidate("2", "Ann Leeson", "1,234"),
       ProbeCandidate("3", "Dr Ann Lee", NoValue),
       ProbeCandidate("4", "Lee", "9"),
       ProbeCandidate("5", "ann lee", "n/a"),
       ProbeCandidate("6", "Bo Li", "10") >>

CandidateNames ==
    {AnchorInputs[k].name : k \in DOMAIN AnchorInputs}
        \cup {ProbeCandidates[k].name : k \in DOMAIN ProbeCandidates}

QueryNames == {trim(n) : n \in RmpNameInputs}

RatingCounts ==
    {AnchorInputs[k].numRatings : k \in DOMAIN AnchorInputs}
        \cup {e.numRatings : e \in ExtraInputs}
        \cup {ProbeCandidates[k].numRatings : k \in DOMAIN ProbeCandidates}

namePointsTable == [c \in CandidateNames |-> [q \in QueryNames |-> namePoints(c, q)]]

ratingsNumTable == [n \in RatingCounts |-> ratingsNumOf([numRatings |-> n])]

\* the score of a pooled candidate against the query name
candidateScore(r, name) ==
    namePointsTable[r.name][name] + ratingsPoints(ratingsNumTable[r.numRatings])

\* insertion of x after every element that scores at least as much
RECURSIVE InsertByScore(_, _, _)
InsertByScore(x, sorted, name) ==
    IF sorted = <<>> THEN <<x>>
    ELSE IF candidateScore(Head(sorted), name) >= candidateScore(x, name)
         THEN <<Head(sorted)>> \o InsertByScore(x, Tail(sorted), name)
         ELSE <<x>> \o sorted

\* pool.map(score).sort((a, b) => b.score - a.score).map(x => x.r): stable
RECURSIVE sortByScore(_, _)
sortByScore(pool, name) ==
    IF pool = <<>> THEN <<>>
    ELSE InsertByScore(pool[Len(pool)], sortByScore(SubSeq(pool, 1, Len(pool) - 1), name), name)

SCHOOL_NAME == "Concordia University"

\* { count: 0, top: null, others: [], school: SCHOOL_NAME, all }
emptyPayload(all) ==
    [count |-> 0, top |-> Null, others |-> <<>>, school |-> SCHOOL_NAME, all |-> all]

\* a payload whose count leaves the top candidate out
scoredPayloadCountsOthers(pool, name, all) ==
    LET scored == sortByScore(pool, name) IN
    [count |-> Len(Tail(scored)), top |-> Head(scored), others |-> Tail(scored),
     school |-> SCHOOL_NAME, all |-> all]

\* { count: scored.length, top: scored[0], others: scored.slice(1), school, all }
scoredPayload(pool, name, all) ==
    LET scored == sortByScore(pool, name) IN
    [count |-> Len(scored), top |-> Head(scored), others |-> Tail(scored),
     school |-> SCHOOL_NAME, all |-> all]

-----------------------------------------------------------------------------
(* The profile lookup: GET /api/rmp *)

\* The build that serves the lookups: "browser" is src/server.js (a browser page,
\* an overall timer), "fetch" is the build of src/unnamed/part_000 that fetches the
\* pages directly (no overall timer).
Builds == {"browser", "fetch"}

\* what extractProfFromProfileHtml returns for the profile page of the first anchor
InfoInputs ==
    {[name |-> "Ann Lee", dept |-> "Physics", school |-> NoValue, quality |-> "4.5",
      difficulty |-> NoValue, wouldTakeAgain |-> NoValue, numRatings |-> "25"],
     [name |-> NoValue, dept |-> NoValue, school |-> NoValue, quality |-> NoValue,
      difficulty |-> NoValue, wouldTakeAgain |-> NoValue, numRatings |-> NoValue]}

\* a || b
orElse(a, b) == IF a # NoValue /\ a # "" THEN a ELSE b

\* res.status(status).json(body)
Response(status, body) == [status |-> status, body |-> body]

\* a clearTimeout that leaves the timer armed
clearTimeoutKeepsArmed(r) == r

\* clearTimeout(overallTimer)
clearTimeout(r) ==
    [r EXCEPT !.timer = IF @ = "armed" THEN "cleared" ELSE @, !.deadline = 0]

\* a request of /api/rmp: where its handler stands (pc), its overall timer, the number
\* of candidates found on the search page (-1 before it is read), the link of the
\* first one, the pool, the pool positions still to enrich, what was sent on res,
\* whether an exception escaped the handler, and when the abort timer of the fetch
\* in flight is due (0 when no such timer is armed)
NewRmpReq(build, name, all) ==
    [build |-> build, name |-> name, all |-> all, pc |-> "start", timer |-> "none",
     deadline |-> 0, readyAt |-> 0, found |-> -1, href |-> NoValue, pool |-> <<>>,
     todo |-> <<>>, sent |-> <<>>, escaped |-> FALSE, abortAt |-> 0]

\* res.json / res.status(..).json on a response that was already sent throws
Responded(r) == r.sent # <<>>

\* the catch block: clearTimeout, then res.status(500).json(...), which throws out
\* of the handler when the response was already sent
Catch(r) ==
    LET r1 == [clearTimeout(r) EXCEPT !.pc = "done"] IN
    IF Responded(r1) THEN [r1 EXCEPT !.escaped = TRUE]
    ELSE [r1 EXCEPT !.sent = <<Response(500, [error |-> "RMP scrape failed"])>>]

\* the catch block of the fetch build
CatchFetch(r) ==
    [r EXCEPT !.pc = "done", !.abortAt = 0, !.sent = <<Response(500, [error |-> "RMP scrape failed"])>>]

\* an end of the try block that treats an empty pool as a failure
FinishEmptyFails(i, r) ==
    LET payload == scoredPayload(r.pool, r.name, r.all)
        r1 == clearTimeout(r)
    IN IF r.pool = <<>>
       THEN /\ reqs' = [reqs EXCEPT ![i] = Catch(r)]
            /\ UNCHANGED cache
       ELSE /\ cache' = rmpSet(cache, r.name, r.all, payload, nowMs)
            /\ reqs' = [reqs EXCEPT ![i] =
                          IF Responded(r1) THEN Catch(r1)
                          ELSE [r1 EXCEPT !.pc = "done", !.sent = <<Response(200, payload)>>]]

\* the end of the try block of src/server.js: the payload is built from the pool,
\* stored with rmpSet and then sent; a throw of res.json lands in the catch block
Finish(i, r) ==
    LET payload == IF r.pool = <<>> THEN emptyPayload(r.all)
                   ELSE scoredPayload(r.pool, r.name, r.all)
        r1 == clearTimeout(r)
    IN /\ cache' = rmpSet(cache, r.name, r.all, payload, nowMs)
       /\ reqs' = [reqs EXCEPT ![i] =
                     IF Responded(r1) THEN Catch(r1)
                     ELSE [r1 EXCEPT !.pc = "done", !.sent = <<Response(200, payload)>>]]

\* the handler up to its first await: validation, cache check, overall timer
RmpRequest(build, nameIn, all) ==
    /\ Len(reqs) < MaxRmpReqs
    /\ reqs # <<>> => build = reqs[1].build
    /\ LET name == trim(nameIn)
           r == NewRmpReq(build, name, all)
           got == rmpGet(cache, name, all, nowMs)
       IN IF name = ""
          THEN /\ reqs' = Append(reqs, [r EXCEPT !.pc = "done",
                              !.sent = <<Response(400, [error |-> "Missing professor name"])>>])
               /\ UNCHANGED cache
          ELSE /\ cache' = got.cache
               /\ reqs' = Append(reqs,
                     IF got.value # Null
                     THEN [r EXCEPT !.pc = "done", !.sent = <<Response(200, got.value)>>]
                     ELSE IF build = "browser"
                          THEN [r EXCEPT !.pc = "goto", !.timer = "armed",
                                         !.deadline = nowMs + RmpOverallTimeoutMs]
                          ELSE [r EXCEPT !.pc = "search", !.abortAt = nowMs + FetchTimeoutMs])
    /\ UNCHANGED <<nowMs, lastOp, rmpTicks>>
    /\ UNCHANGED <<redditVars, probe>>

\* getBrowser, newPage and page.goto(searchUrl) resolve: the handler sleeps 900ms
RmpGotoOk(i) ==
    /\ i \in DOMAIN reqs
    /\ reqs[i].pc = "goto"
    /\ reqs' = [reqs EXCEPT ![i] =
            [@ EXCEPT !.pc = "wait", !.readyAt = nowMs + SleepAfterGotoMs]]
    /\ UNCHANGED <<nowMs, cache, lastOp, rmpTicks>>
    /\ UNCHANGED <<redditVars, probe>>

\* getBrowser, newPage, page.goto(searchUrl) or page.evaluate rejects
RmpScrapeThrows(i) ==
    /\ i \in DOMAIN reqs
    /\ reqs[i].pc \in {"goto", "wait"}
    /\ reqs' = [reqs EXCEPT ![i] = Catch(@)]
    /\ UNCHANGED <<nowMs, cache, lastOp, rmpTicks>>
    /\ UNCHANGED <<redditVars, probe>>

\* waitForSelector is over (after 15s when the page shows neither an anchor nor a
\* "no results" element) and page.evaluate returns the results: the pool is chosen,
\* and the handler either goes to the first profile page or, with nothing to enrich,
\* finishes
RmpEvaluate(i, page) ==
    /\ i \in DOMAIN reqs
    /\ reqs[i].pc = "wait"
    /\ nowMs >= reqs[i].readyAt +
                 (IF page.anchors = <<>> /\ ~page.noResults THEN WaitForSelectorMs ELSE 0)
    /\ LET results == resultsTable[page]
           pool == poolTable[page][reqs[i].all]
           todo == needsEnrichOf(pool)
           r == [reqs[i] EXCEPT !.readyAt = 0, !.found = Len(results), !.pool = pool,
                                !.todo = todo]
       IN IF todo = <<>> THEN Finish(i, r)
          ELSE /\ reqs' = [reqs EXCEPT ![i] = [r EXCEPT !.pc = "enrich"]]
               /\ UNCHANGED cache
    /\ UNCHANGED <<nowMs, lastOp, rmpTicks>>
    /\ UNCHANGED <<redditVars, probe>>

\* the profile page of the next candidate to enrich was read
RmpEnrichOk(i, extra) ==
    /\ i \in DOMAIN reqs
    /\ reqs[i].pc = "enrich"
    /\ LET t == Head(reqs[i].todo)
           r == [reqs[i] EXCEPT !.pool[t] = applyExtra(@, extra), !.todo = Tail(@)]
       IN IF r.todo = <<>> THEN Finish(i, r)
          ELSE /\ reqs' = [reqs EXCEPT ![i] = r]
               /\ UNCHANGED cache
    /\ UNCHANGED <<nowMs, lastOp, rmpTicks>>
    /\ UNCHANGED <<redditVars, probe>>

\* page.goto(t.url) or page.evaluate rejects: caught, the candidate stays as it is
RmpEnrichFails(i) ==
    /\ i \in DOMAIN reqs
    /\ reqs[i].pc = "enrich"
    /\ LET r == [reqs[i] EXCEPT !.todo = Tail(@)]
       IN IF r.todo = <<>> THEN Finish(i, r)
          ELSE /\ reqs' = [reqs EXCEPT ![i] = r]
               /\ UNCHANGED cache
    /\ UNCHANGED <<nowMs, lastOp, rmpTicks>>
    /\ UNCHANGED <<redditVars, probe>>

\* the overall timer fires: hardFail("overall-timeout")
RmpOverallTimer(i) ==
    /\ i \in DOMAIN reqs
    /\ reqs[i].timer = "armed"
    /\ nowMs >= reqs[i].deadline
    /\ reqs' = [reqs EXCEPT ![i] =
            IF Responded(@) THEN [@ EXCEPT !.timer = "fired", !.deadline = 0, !.escaped = TRUE]
            ELSE [@ EXCEPT !.timer = "fired", !.deadline = 0,
                           !.sent = <<Response(504, [error |-> "RMP scrape timeout"])>>]]
    /\ UNCHANGED <<nowMs, cache, lastOp, rmpTicks>>
    /\ UNCHANGED <<redditVars, probe>>

\* the first a[href^="/professor/"] of the page, NoValue when there is none
RECURSIVE firstProfessorHref(_)
firstProfessorHref(anchors) ==
    IF anchors = <<>> THEN NoValue
    ELSE IF startsWith(Head(anchors).href, "/professor/") THEN Head(anchors).href
         ELSE firstProfessorHref(Tail(anchors))

\* what rmpSearchAndProfile returns once the profile page was read
profileOutcome(info, name, href) ==
    IF info.name # NoValue \/ info.quality # NoValue \/ info.numRatings # NoValue
    THEN [count |-> 1,
          top |-> [name |-> orElse(info.name, name), dept |-> info.dept,
                   school |-> orElse(info.school, SCHOOL_NAME), quality |-> info.quality,
                   difficulty |-> info.difficulty, wouldTakeAgain |-> info.wouldTakeAgain,
                   numRatings |-> info.numRatings,
                   url |-> "https://www.ratemyprofessors.com" \o href],
          others |-> <<>>]
    ELSE [count |-> 0, top |-> Null, others |-> <<>>]

\* the end of the try block of the fetch build: payload, rmpSet, res.json
FinishFetch(i, r, out) ==
    LET payload == IF out.count = 0 THEN emptyPayload(r.all)
                   ELSE [count |-> out.count, top |-> out.top, others |-> out.others,
                         school |-> SCHOOL_NAME, all |-> r.all]
    IN /\ cache' = rmpSet(cache, r.name, r.all, payload, nowMs)
       /\ reqs' = [reqs EXCEPT ![i] =
                     [r EXCEPT !.pc = "done", !.sent = <<Response(200, payload)>>]]

\* the pc of a fetchHtml whose fetch has resolved and whose body is being read
bodyOf(pc) == IF pc = "search" THEN "searchBody" ELSE "profileBody"

\* fetch(url, {signal}) resolves with the response headers: clearTimeout(timer), the
\* status is ok, and resp.text() starts reading the body
FetchHeaders(i) ==
    /\ i \in DOMAIN reqs
    /\ reqs[i].pc \in {"search", "profile"}
    /\ reqs' = [reqs EXCEPT ![i] = [@ EXCEPT !.pc = bodyOf(@), !.abortAt = 0]]
    /\ UNCHANGED <<nowMs, cache, lastOp, rmpTicks>>
    /\ UNCHANGED <<redditVars, probe>>

\* the timer of fetchHtml fires while fetch is pending: controller.abort() rejects
\* the fetch, and the rejection reaches the catch block of the handler
FetchAbort(i) ==
    /\ i \in DOMAIN reqs
    /\ reqs[i].pc \in {"search", "profile"}
    /\ nowMs >= reqs[i].abortAt
    /\ reqs' = [reqs EXCEPT ![i] = CatchFetch(@)]
    /\ UNCHANGED <<nowMs, cache, lastOp, rmpTicks>>
    /\ UNCHANGED <<redditVars, probe>>

\* fetchHtml(searchUrl) resolves: without a profile anchor the lookup ends with
\* count 0, otherwise the profile page of the first anchor is fetched
FetchSearchOk(i, page) ==
    /\ i \in DOMAIN reqs
    /\ reqs[i].pc = "searchBody"
    /\ LET href == firstProfessorHref(page.anchors) IN
       IF href = NoValue
       THEN FinishFetch(i, [reqs[i] EXCEPT !.found = 0], [count |-> 0, top |-> Null, others |-> <<>>])
       ELSE /\ reqs' = [reqs EXCEPT ![i] = [@ EXCEPT !.pc = "profile", !.found = 1, !.href = href,
                                                        !.abortAt = nowMs + FetchTimeoutMs]]
            /\ UNCHANGED cache
    /\ UNCHANGED <<nowMs, lastOp, rmpTicks>>
    /\ UNCHANGED <<redditVars, probe>>

\* fetchHtml(profileUrl) resolves and the profile page is read
FetchProfileOk(i, info) ==
    /\ i \in DOMAIN reqs
    /\ reqs[i].pc = "profileBody"
    /\ FinishFetch(i, reqs[i],
            profileOutcome(info, reqs[i].name, reqs[i].href))
    /\ UNCHANGED <<nowMs, lastOp, rmpTicks>>
    /\ UNCHANGED <<redditVars, probe>>

\* fetchHtml rejects: fetch fails (network error), the status is not ok, or
\* resp.text() fails while the body is read
FetchFails(i) ==
    /\ i \in DOMAIN reqs
    /\ reqs[i].pc \in {"search", "profile", "searchBody", "profileBody"}
    /\ reqs' = [reqs EXCEPT ![i] = CatchFetch(@)]
    /\ UNCHANGED <<nowMs, cache, lastOp, rmpTicks>>
    /\ UNCHANGED <<redditVars, probe>>

\* the step of the clock: half the overall timeout
RmpTickMs == RmpOverallTimeoutMs \div 2

\* time passes; a timer that is due fires before the clock moves on
RmpTick ==
    /\ rmpTicks < MaxRmpTicks
    /\ \E i \in DOMAIN reqs : reqs[i].pc # "done" \/ reqs[i].timer = "armed"
    /\ \A i \in DOMAIN reqs : ~(reqs[i].timer = "armed" /\ nowMs >= reqs[i].deadline)
    /\ \A i \in DOMAIN reqs : ~(reqs[i].pc \in {"search", "profile"} /\ nowMs >= reqs[i].abortAt)
    /\ nowMs' = nowMs + RmpTickMs
    /\ rmpTicks' = rmpTicks + 1
    /\ UNCHANGED <<cache, lastOp, reqs>>
    /\ UNCHANGED <<redditVars, probe>>

NextRmp ==
    \/ \E build \in Builds, name \in RmpNameInputs, all \in BOOLEAN : RmpRequest(build, name, all)
    \/ \E i \in 1..MaxRmpReqs : RmpGotoOk(i)
    \/ \E i \in 1..MaxRmpReqs : RmpScrapeThrows(i)
    \/ \E i \in 1..MaxRmpReqs, page \in PageInputs : RmpEvaluate(i, page)
    \/ \E i \in 1..MaxRmpReqs, extra \in ExtraInputs : RmpEnrichOk(i, extra)
    \/ \E i \in 1..MaxRmpReqs : RmpEnrichFails(i)
    \/ \E i \in 1..MaxRmpReqs : RmpOverallTimer(i)
    \/ \E i \in 1..MaxRmpReqs, page \in PageInputs : FetchSearchOk(i, page)
    \/ \E i \in 1..MaxRmpReqs, info \in InfoInputs : FetchProfileOk(i, info)
    \/ \E i \in 1..MaxRmpReqs : FetchFails(i)
    \/ \E i \in 1..MaxRmpReqs : FetchHeaders(i)
    \/ \E i \in 1..MaxRmpReqs : FetchAbort(i)
    \/ RmpTick

SpecRmp == Init /\ [][NextRmp]_vars

-----------------------------------------------------------------------------
(* The earlier browser build of the profile lookup (src/unnamed/part_000):  *)
(* its extraction and its pool                                              *)

\* document.querySelectorAll('a[href^="/professor/"]'), then per anchor
\* if (href && name && !uniq.has(href)) uniq.set(href, {...})
RECURSIVE pushFromAnchorsEarly(_, _, _)
pushFromAnchorsEarly(anchors, uniq, found) ==
    IF anchors = <<>> THEN found
    ELSE LET a == Head(anchors) IN
         IF ~startsWith(a.href, "/professor/") \/ a.name = "" \/ a.name = NoValue
                \/ a.href \in uniq
         THEN pushFromAnchorsEarly(Tail(anchors), uniq, found)
         ELSE pushFromAnchorsEarly(Tail(anchors), uniq \cup {a.href},
                                   Append(found, candidateOf(a)))

\* what page.evaluate returns for the search page: Array.from(uniq.values())
extractResultsEarly(page) == pushFromAnchorsEarly(page.anchors, {}, <<>>)

\* (r.school && /concordia university/i.test(r.school)) ||
\* /concordia university/i.test(r.blockText || "")
isConcordiaEarly(r) ==
    \/ r.school # NoValue /\ includes(toLowerCase(r.school), "concordia university")
    \/ includes(toLowerCase(r.blockText), "concordia university")

RECURSIVE filterConcordiaEarly(_)
filterConcordiaEarly(results) ==
    IF results = <<>> THEN <<>>
    ELSE IF isConcordiaEarly(Head(results))
         THEN <<Head(results)>> \o filterConcordiaEarly(Tail(results))
         ELSE filterConcordiaEarly(Tail(results))

\* the pool: every result when all is set, else the Concordia ones
poolOfEarly(results, all) == IF all THEN results ELSE filterConcordiaEarly(results)

-----------------------------------------------------------------------------
(* The fetch builds (src/unnamed/part_000): extractProfFromProfileHtml *)

\* const info = {}
NoInfo ==
    [name |-> NoValue, dept |-> NoValue, school |-> NoValue, quality |-> NoValue,
     difficulty |-> NoValue, wouldTakeAgain |-> NoValue, numRatings |-> NoValue]

\* !info.x
unset(v) == v = NoValue \/ v = ""

\* a JSON number below zero, as written in the page
isNegative(v) == v # NoValue /\ startsWith(v, "-") /\ digitsValue(v, 0) > 0

\* 1) the structured data of __NEXT_DATA__, with a step that keeps any number
nextDataKeepsNegative(info, html) ==
    LET t == html.teacher IN
    [info EXCEPT !.name = IF ~unset(t.name) THEN t.name ELSE @,
                 !.dept = IF ~unset(t.dept) THEN t.dept ELSE @,
                 !.school = IF ~unset(t.school) THEN t.school ELSE @,
                 !.quality = IF ~unset(t.quality) THEN t.quality ELSE @,
                 !.difficulty = IF ~unset(t.difficulty) THEN t.difficulty ELSE @,
                 !.wouldTakeAgain = IF ~unset(t.would) THEN t.would ELSE @,
                 !.numRatings = IF ~unset(t.numRatings) THEN t.numRatings ELSE @]

\* 1) the structured data of __NEXT_DATA__:
\* if (typeof w === "number" && w >= 0) info.wouldTakeAgain = String(w)
nextData(info, html) ==
    LET t == html.teacher IN
    [info EXCEPT !.name = IF ~unset(t.name) THEN t.name ELSE @,
                 !.dept = IF ~unset(t.dept) THEN t.dept ELSE @,
                 !.school = IF ~unset(t.school) THEN t.school ELSE @,
                 !.quality = IF ~unset(t.quality) THEN t.quality ELSE @,
                 !.difficulty = IF ~unset(t.difficulty) THEN t.difficulty ELSE @,
                 !.wouldTakeAgain = IF ~unset(t.would) /\ ~isNegative(t.would) THEN t.would ELSE @,
                 !.numRatings = IF ~unset(t.numRatings) THEN t.numRatings ELSE @]

\* pickFirst(...vals)
pickFirst(vals) ==
    LET hits == {i \in DOMAIN vals : ~unset(vals[i])} IN
    IF hits = {} THEN NoValue ELSE vals[CHOOSE i \in hits : \A j \in hits : i <= j]

\* 2) the DOM selectors, with a quality step that is not guarded by !info.quality
domFallbacksOverwrite(info, html) ==
    [info EXCEPT !.name = IF unset(@) THEN pickFirst(<<html.h1, html.ogName, @>>) ELSE @,
                 !.quality = IF ~unset(html.qSel) THEN html.qSel ELSE @,
                 !.difficulty = IF unset(@) /\ ~unset(html.diffScope) THEN html.diffScope ELSE @,
                 !.numRatings = IF unset(@) /\ ~unset(html.basedOn) THEN html.basedOn ELSE @]

\* 2) the DOM selectors: each under if (!info.x)
domFallbacks(info, html) ==
    [info EXCEPT !.name = IF unset(@) THEN pickFirst(<<html.h1, html.ogName, @>>) ELSE @,
                 !.quality = IF unset(@) /\ ~unset(html.qSel) THEN html.qSel ELSE @,
                 !.difficulty = IF unset(@) /\ ~unset(html.diffScope) THEN html.diffScope ELSE @,
                 !.numRatings = IF unset(@) /\ ~unset(html.basedOn) THEN html.basedOn ELSE @]

\* 3) the patterns over the text of the body: each under if (!info.x)
textFallbacks(info, html) ==
    [info EXCEPT !.dept = IF unset(@) /\ ~unset(html.deptText) THEN html.deptText ELSE @,
                 !.wouldTakeAgain = IF unset(@) /\ ~unset(html.wouldText) THEN html.wouldText ELSE @,
                 !.quality = IF unset(@) /\ ~unset(html.outOf5) THEN html.outOf5 ELSE @,
                 !.difficulty = IF unset(@) /\ ~unset(html.levelOfDifficulty)
                                THEN html.levelOfDifficulty ELSE @]

\* extractProfFromProfileHtml(html) of the build with the three strategies
extractProfFromProfileHtml(html) ==
    textFallbacks(domFallbacks(nextData(NoInfo, html), html), html)

\* The later copy of the function.  First the values pulled from the text of
\* __NEXT_DATA__ by pattern ("wouldTakeAgainPercent":\s*(-?\d+) keeps the sign)
pullNextData(html) ==
    LET t == html.teacher IN
    [name |-> t.name, dept |-> t.dept, school |-> t.school, quality |-> t.quality,
     difficulty |-> t.difficulty, wouldTakeAgain |-> t.would, numRatings |-> t.numRatings]

\* then the visible text: if (!info.x) info.x = pull(html, ...)
pullVisible(info, html) ==
    [info EXCEPT !.name = IF unset(@) /\ ~unset(html.h1) THEN html.h1 ELSE @,
                 !.quality = IF unset(@) THEN html.overallQuality ELSE @,
                 !.difficulty = IF unset(@) THEN html.levelOfDifficulty ELSE @,
                 !.numRatings = IF unset(@) THEN html.basedOn ELSE @]

\* if (info.wouldTakeAgain && Number(info.wouldTakeAgain) < 0) info.wouldTakeAgain = null
dropNegativeWould(info) ==
    [info EXCEPT !.wouldTakeAgain = IF ~unset(@) /\ isNegative(@) THEN NoValue ELSE @]

extractProfFromProfileHtmlPull(html) ==
    dropNegativeWould(pullVisible(pullNextData(html), html))

\* The strategies that find something on a page of the model
Strategies == {"json", "dom", "text"}

take(on, strategy, v) == IF strategy \in on THEN v ELSE NoValue

\* wouldTakeAgainPercent of the embedded data: absent, not applicable (-1), or a percentage
WouldInputs == {NoValue, "-1", "0", "85"}

\* A profile page, as the strategies of extractProfFromProfileHtml read it: the
\* values of the teacher object of __NEXT_DATA__ (teacher), what the DOM selectors
\* select (h1, ogName, qSel, diffScope), and what the text patterns capture in
\* the text of the page (NoValue where there is nothing to read or no match).
\* On this page the strategies of p find the name, the quality and the
\* department, those of q the difficulty, the would-take-again percentage and
\* the number of ratings; every strategy would find a value of its own.
ProfilePage(p, q, would) ==
    [teacher |-> [name |-> take(p, "json", "Ann Lee"), dept |-> take(p, "json", "Physics"),
                  school |-> take(p, "json", "Concordia University"),
                  quality |-> take(p, "json", "4.5"), difficulty |-> take(q, "json", "3.1"),
                  would |-> would, numRatings |-> take(q, "json", "25")],
     h1 |-> take(p, "dom", "Ann B. Lee"), ogName |-> "A. Lee", qSel |-> take(p, "dom", "3.9"),
     diffScope |-> take(q, "dom", "2.5"), basedOn |-> take(q, "dom", "849"),
     deptText |-> take(p, "text", "Chemistry"), wouldText |-> take(q, "text", "94"),
     outOf5 |-> take(p, "text", "2.0"), overallQuality |-> take(p, "text", "1.7"),
     levelOfDifficulty |-> take(q, "text", "4.2")]

ProfilePages == {ProfilePage(p, q, w) : p \in SUBSET Strategies, q \in SUBSET Strategies,
                                        w \in WouldInputs}

\* the two copies of the function
ExtractCopies == {"cascade", "pull"}

extractOf(copy, html) ==
    IF copy = "cascade" THEN extractProfFromProfileHtml(html)
    ELSE extractProfFromProfileHtmlPull(html)

\* info after the embedded data was read, and after the second strategy
afterFirst(copy, html) ==
    IF copy = "cascade" THEN nextData(NoInfo, html) ELSE pullNextData(html)

afterSecond(copy, html) ==
    IF copy = "cascade" THEN domFallbacks(nextData(NoInfo, html), html)
    ELSE pullVisible(pullNextData(html), html)

-----------------------------------------------------------------------------
(* The pure functions, applied to inputs of the model *)

\* the builds that read a search page in a browser
BrowserBuilds == {"browser", "browserEarly"}

\* Anchors of the search pages the functions are applied to: those of the
\* lookups, a card of another institution whose text mentions Concordia, and an
\* anchor with an absolute href (matched by href*= only).
ProbeAnchorInputs ==
    AnchorInputs \o
    <<Anchor("/professor/4", "Ann Lee", "McGill University", NoValue, NoValue, NoValue,
             NoValue, NoValue, "Concordia exchange 3 McGill University"),
      Anchor("https://www.ratemyprofessors.com/professor/1", "Bo Li", NoValue, NoValue,
             NoValue, NoValue, NoValue, NoValue, "Bo Li")>>

RECURSIVE ProbeAnchorLists(_)
ProbeAnchorLists(n) ==
    IF n = 0 THEN {<<>>}
    ELSE ProbeAnchorLists(n - 1) \cup
         {Append(l, ProbeAnchorInputs[k]) :
              l \in {x \in ProbeAnchorLists(n - 1) : Len(x) = n - 1},
              k \in DOMAIN ProbeAnchorInputs}

ProbePages == {[anchors |-> l, noResults |-> FALSE] : l \in ProbeAnchorLists(MaxProbeAnchors)}

\* page.evaluate, then the pool, as the build computes them
resultsOf(build, page) ==
    IF build = "browser" THEN extractResults(page) ELSE extractResultsEarly(page)

poolOfBuild(build, results, all) ==
    IF build = "browser" THEN poolOf(results, all) ELSE poolOfEarly(results, all)

\* The functions keep no state: a behaviour applies one of them once.
\* the search page read and pooled by one build
ApplyPool(build, page, all) ==
    /\ probe = NoProbe
    /\ probe' = [fn |-> "pool", build |-> build, page |-> page, all |-> all,
                 results |-> resultsOf(build, page),
                 pool |-> poolOfBuild(build, resultsOf(build, page), all)]
    /\ UNCHANGED <<redditVars, rmpVars>>

\* a profile page read by one copy of extractProfFromProfileHtml
ApplyExtract(copy, html) ==
    /\ probe = NoProbe
    /\ probe' = [fn |-> "extract", copy |-> copy, html |-> html,
                 first |-> afterFirst(copy, html), second |-> afterSecond(copy, html),
                 info |-> extractOf(copy, html)]
    /\ UNCHANGED <<redditVars, rmpVars>>

\* req.query.question after (q || ""): "" stands for a missing question too
ProbeQuestions ==
    {"", "is it hard", "who's the best prof", "final exam format", "any tips for labs",
     "Best FINAL tips", "exam notes", "the hardest labs", "AVOID the quiz"}

\* no earlier call of the classifier
NoCall == [q |-> NoValue, topic |-> NoValue]

\* a question is classified; the call before it, if any, is remembered
ApplyInferTopic(q) ==
    /\ probe = NoProbe \/ (probe.fn = "topic" /\ probe.prev = NoCall)
    /\ probe' = [fn |-> "topic", q |-> q, topic |-> inferTopicFromQuestion(q),
                 prev |-> IF probe = NoProbe THEN NoCall
                          ELSE [q |-> probe.q, topic |-> probe.topic]]
    /\ UNCHANGED <<redditVars, rmpVars>>

\* the age of a probed post in seconds: created a day after now (a clock ahead of
\* the server's), now, a day ago, and around the 300 days where recency reaches 0
ProbeAges ==
    {0 - SecondsPerDay, 0, SecondsPerDay,
     RecencyMaxPoints * RelUnit - 1, RecencyMaxPoints * RelUnit,
     RecencyMaxPoints * RelUnit + SecondsPerDay}

\* the post of the provider with this title and age
ProbePost(id, title, age, now) == [id |-> id, subreddit |-> "r/" \o ForumNames[1], title |-> title, created_utc |-> now - age]

\* searchQOf on the probed courses and topics, computed once
searchQTable == [c \in ProbeCourses |-> [t \in ProbeTopics |-> searchQOf(c, t)]]

\* two posts go through the filter and the scoring of searchReddit
ApplyScore(course, topic, t1, a1, t2, a2) ==
    /\ probe = NoProbe
    /\ LET q == searchQTable[course][topic]
           posts == <<ProbePost(1, t1, a1, nowSec), ProbePost(2, t2, a2, nowSec)>>
       IN probe' = [fn |-> "score", course |-> course, topic |-> topic, searchQ |-> q,
                    now |-> nowSec, posts |-> posts,
                    scored |-> filterAndScore(posts, q, nowSec)]
    /\ UNCHANGED <<redditVars, rmpVars>>

\* what a forum can return to a probed search: two posts titled with the course and
\* of one age (equal relevance), a younger post with a topic word, a post without
\* the course
ProbePool ==
    << [id |-> 1, title |-> "cs 1",       created_utc |-> DaysAgo(20)],
       [id |-> 2, title |-> "cs 1",       created_utc |-> DaysAgo(20)],
       [id |-> 3, title |-> "CS 1 hard?", created_utc |-> DaysAgo(10)],
       [id |-> 4, title |-> "Drop rate",  created_utc |-> DaysAgo(10)] >>

\* the listings of at most two distinct posts of ProbePool, in any order
ProbeListings ==
    {<<>>} \cup {<<ProbePool[i]>> : i \in DOMAIN ProbePool}
    \cup {<<ProbePool[x[1]], ProbePool[x[2]]>> :
              x \in {y \in (DOMAIN ProbePool) \X (DOMAIN ProbePool) : y[1] # y[2]}}

\* the limits passed to a probed search
ProbeLimits == {-1, 1, 2, SearchLimitDefault}

\* searchReddit after Promise.all, on the listings of two forums
ApplySearch(l1, l2, limit) ==
    /\ probe = NoProbe
    /\ LET q == searchQTable["CS 1"]["grades"]
           nested == <<mapListing(l1, ForumNames[1]), mapListing(l2, ForumNames[2])>>
       IN probe' = [fn |-> "search", searchQ |-> q, now |-> nowSec, limit |-> limit,
                    flat |-> flat(nested),
                    scored |-> filterAndScore(flat(nested), q, nowSec),
                    result |-> searchRedditResult(nested, q, 0, limit, nowSec)]
    /\ UNCHANGED <<redditVars, rmpVars>>

\* the pools of at most three distinct probed candidates, in any order
RECURSIVE ProbePools(_)
ProbePools(n) ==
    IF n = 0 THEN {<<>>}
    ELSE LET shorter == ProbePools(n - 1) IN
         shorter \cup
         {Append(x[1], ProbeCandidates[x[2]]) :
              x \in {y \in {z \in shorter : Len(z) = n - 1} \X (DOMAIN ProbeCandidates) :
                        \A i \in DOMAIN y[1] : y[1][i] # ProbeCandidates[y[2]]}}

\* the query names that reach the scoring (an empty name is answered 400 before)
ProbeNames == QueryNames \ {""}

\* step 3 of the handler: a pool is scored, sorted and put in the payload
ApplyRank(pool, name) ==
    /\ probe = NoProbe
    /\ probe' = [fn |-> "rank", pool |-> pool, name |-> name,
                 scores |-> [k \in DOMAIN pool |-> candidateScore(pool[k], name)],
                 scored |-> sortByScore(pool, name),
                 payload |-> scoredPayload(pool, name, FALSE)]
    /\ UNCHANGED <<redditVars, rmpVars>>

\* ages of a post in days around every threshold of relTime, and the parts of a
\* day added to them: none, just under a half, a half
ProbeDays == {-1, 0, 1, 6, 7, 8, 52, 53, 55, 56, 60, 524, 525, 539, 540, 600}

ProbeDayParts == {0, SecondsPerDay \div 2 - 1, SecondsPerDay \div 2}

\* the age of a post is rendered for the answer
ApplyRelTime(days, part) ==
    /\ probe = NoProbe
    /\ LET created == nowSec - (days * SecondsPerDay + part) IN
       probe' = [fn |-> "relTime", created_utc |-> created, now |-> nowSec,
                 when |-> relTime(created, nowSec)]
    /\ UNCHANGED <<redditVars, rmpVars>>

\* the courses (trimmed, not empty) and topics a search expression is built from: a
\* course without whitespace, with one run, with two runs; the four known topics,
\* unknown ones, and one that names a property every object inherits
SynthCourses == ProbeCourses \cup {"CS1"}

SynthTopics == Topics \cup {"grades", "Difficulty", "constructor"}

\* the search expression is built for a course and a topic
ApplySynth(course, topic) ==
    /\ probe = NoProbe
    /\ probe' = [fn |-> "synth", course |-> course, topic |-> topic,
                 searchQ |-> searchQOf(course, topic)]
    /\ UNCHANGED <<redditVars, rmpVars>>

NextFn ==
    \/ \E course \in SynthCourses, topic \in SynthTopics : ApplySynth(course, topic)
    \/ \E days \in ProbeDays, part \in ProbeDayParts : ApplyRelTime(days, part)
    \/ \E pool \in ProbePools(MaxProbePool) \ {<<>>}, name \in ProbeNames : ApplyRank(pool, name)
    \/ \E l1 \in ProbeListings, l2 \in ProbeListings, limit \in ProbeLimits : ApplySearch(l1, l2, limit)
    \/ \E course \in RequestCourses, topic \in ProbeTopics, t1 \in ProbeTitles, t2 \in ProbeTitles,
          a1 \in ProbeAges, a2 \in ProbeAges : ApplyScore(course, topic, t1, a1, t2, a2)
    \/ \E build \in BrowserBuilds, page \in ProbePages, all \in BOOLEAN :
           ApplyPool(build, page, all)
    \/ \E copy \in ExtractCopies, html \in ProfilePages : ApplyExtract(copy, html)
    \/ \E q \in ProbeQuestions : ApplyInferTopic(q)

SpecFn == Init /\ [][NextFn]_vars

-----------------------------------------------------------------------------
(* The service as a whole: a discussion request or profile lookups.  The two  *)
(* routes share no state, so their steps are not interleaved, except that a   *)
(* discussion request without a course may come once the lookups are served.  *)

NoLookup == reqs = <<>>

NoDiscussion == rq = NoReq

LookupsServed == reqs # <<>> /\ \A i \in DOMAIN reqs : reqs[i].pc = "done"

NextApi ==
    \/ \E route \in {"search", "answer"}, c \in CourseInputs, t \in TopicInputs,
          q \in QuestionInputs, l \in LimitInputs, w \in WindowInputs, subs \in SubLists :
            NoLookup /\ Request(route, c, t, q, l, w, subs)
    \/ \E i \in 1..MaxForums : NoLookup /\ GetSubredditOk(i)
    \/ \E i \in 1..MaxForums : NoLookup /\ GetSubredditThrows(i)
    \/ \E i \in 1..MaxForums, listing \in Listings : NoLookup /\ SearchReturns(i, listing)
    \/ \E i \in 1..MaxForums : NoLookup /\ SearchThrows(i)
    \/ \E i \in 1..MaxForums : NoLookup /\ PerCallTimer(i)
    \/ NoLookup /\ OverallTimer
    \/ NoLookup /\ Tick
    \/ \E build \in Builds, name \in RmpNameInputs, all \in BOOLEAN :
           NoDiscussion /\ RmpRequest(build, name, all)
    \/ \E i \in 1..MaxRmpReqs : NoDiscussion /\ RmpGotoOk(i)
    \/ \E i \in 1..MaxRmpReqs : NoDiscussion /\ RmpScrapeThrows(i)
    \/ \E i \in 1..MaxRmpReqs, page \in PageInputs : NoDiscussion /\ RmpEvaluate(i, page)
    \/ \E i \in 1..MaxRmpReqs, extra \in ExtraInputs : NoDiscussion /\ RmpEnrichOk(i, extra)
    \/ \E i \in 1..MaxRmpReqs : NoDiscussion /\ RmpEnrichFails(i)
    \/ \E i \in 1..MaxRmpReqs : NoDiscussion /\ RmpOverallTimer(i)
    \/ \E i \in 1..MaxRmpReqs, page \in PageInputs : NoDiscussion /\ FetchSearchOk(i, page)
    \/ \E i \in 1..MaxRmpReqs, info \in InfoInputs : NoDiscussion /\ FetchProfileOk(i, info)
    \/ \E i \in 1..MaxRmpReqs : NoDiscussion /\ FetchFails(i)
    \/ \E i \in 1..MaxRmpReqs : NoDiscussion /\ FetchHeaders(i)
    \/ \E i \in 1..MaxRmpReqs : NoDiscussion /\ FetchAbort(i)
    \/ NoDiscussion /\ RmpTick
    \/ /\ LookupsServed
       /\ Request("search", " ", "", "is it hard", [given |-> FALSE, n |-> 0],
                  [given |-> FALSE, n |-> 0], <<ForumNames[1]>>)

SpecApi == Init /\ [][NextApi]_vars

-----------------------------------------------------------------------------
(* Discussion search: the claims *)

Resolved == rq # NoReq /\ search.state = "fulfilled"

ResultIds == {<<search.value[k].subreddit, search.value[k].id>> : k \in DOMAIN search.value}

\* C1: every post in the list returned by searchReddit was created at or after the
\* cutoff afterTs, whatever the subreddits returned.
C1_ResultNotBeforeCutoff ==
    Resolved => \A k \in DOMAIN search.value : search.value[k].created_utc >= rq.afterTs

\* the posts of the subreddits whose search succeeded that pass the title filter
QualifyingOf(i) ==
    {k \in DOMAIN tasks[i].value : titleFilterTable[rq.searchQ][tasks[i].value[k].title]}

RECURSIVE SumQualifying(_)
SumQualifying(n) == IF n = 0 THEN 0 ELSE Cardinality(QualifyingOf(n)) + SumQualifying(n - 1)

\* C2: a subreddit whose search threw or timed out contributes no post, and
\* searchReddit still resolves (it never rejects) with the qualifying posts of the
\* other subreddits (all of them when they fit the limit).
C2_ForumFailureIsolated ==
    /\ search.state # "rejected"
    /\ \A i \in DOMAIN tasks :
          /\ tasks[i].state # "rejected"
          /\ tasks[i].race = "rejected" => tasks[i].state = "fulfilled" /\ tasks[i].value = <<>>
    /\ (rq # NoReq /\ tasks # <<>> /\ \A i \in DOMAIN tasks : tasks[i].race # "pending")
          => search.state = "fulfilled"
    /\ Resolved =>
          /\ \A k \in DOMAIN search.value :
                \E i \in DOMAIN tasks :
                    /\ tasks[i].race = "fulfilled"
                    /\ search.value[k].subreddit = "r/" \o rq.subs[i]
                    /\ \E j \in DOMAIN tasks[i].value : tasks[i].value[j].id = search.value[k].id
          /\ (rq.limit >= 0 /\ SumQualifying(Len(tasks)) <= rq.limit) =>
                \A i \in DOMAIN tasks : \A j \in QualifyingOf(i) :
                    <<tasks[i].value[j].subreddit, tasks[i].value[j].id>> \in ResultIds

\* a subreddit timed out, another one returned a qualifying post, and the request was
\* answered with that post
C2_Witness ==
    /\ Resolved
    /\ \E i, j \in DOMAIN tasks :
          /\ tasks[i].race = "rejected" /\ tasks[i].call \in {"inflight", "returned"}
          /\ tasks[j].race = "fulfilled" /\ QualifyingOf(j) # {}
    /\ Len(responses) = 1 /\ responses[1].status = 200 /\ responses[1].count > 0

\* C3: when the 6s timer fires before searchReddit has completed the request is
\* answered 504 and no post list is ever sent; a 200 is sent only when searchReddit
\* completed first, and then it carries searchReddit's list.
C3_TimeoutNeverPartial ==
    /\ Len(responses) <= 1
    /\ (evts # <<>> /\ evts[1] = "timer") => responses = <<errResponse(504)>>
    /\ \A k \in DOMAIN responses :
          responses[k].status = 200 =>
              /\ evts # <<>> /\ evts[1] = "search" /\ search.state = "fulfilled"
              /\ responses[k] = okResponse(rq.route, search.value)

\* the timer fired first, searchReddit completed afterwards with posts, and the only
\* response is the 504
C3_Witness ==
    /\ evts = <<"timer", "search">>
    /\ search.state = "fulfilled" /\ Len(search.value) > 0
    /\ responses = <<errResponse(504)>>

\* C4: the list returned by searchReddit never has more entries than limit, for
\* every limit the route handlers pass (a limit below zero admits no entry).
C4_AtMostLimit ==
    Resolved => Len(search.value) <= Max(rq.limit, 0)

\* the five spellings of the course that courseVariants puts in the query
courseSpellings(course) ==
    {course, removeSpaces(course), replaceFirstSpaceRun(course, "-"),
     toLowerCase(course), removeSpaces(toLowerCase(course))}

RECURSIVE hyphensToSpaces(_)
hyphensToSpaces(s) ==
    IF IndexOfFrom(s, "-", 1) = 0 THEN s ELSE hyphensToSpaces(replaceFirst(s, "-", " "))

\* the lower-cased title contains a spelling of the course, hyphens read as spaces
TitleHasCourse(title, course) ==
    \E v \in courseSpellings(course) :
        \/ includes(toLowerCase(title), toLowerCase(v))
        \/ includes(hyphensToSpaces(toLowerCase(title)), hyphensToSpaces(toLowerCase(v)))

\* C5: every post returned by searchReddit has a title that contains a course-code
\* spelling of the queried course.
C5_ResultTitleHasCourse ==
    Resolved => \A k \in DOMAIN search.value : TitleHasCourse(search.value[k].title, rq.course)

-----------------------------------------------------------------------------
(* The cache: the claims *)

\* the age, at the call, of the entry the last rmpGet looked up (-1: no entry)
LookedUpAge ==
    LET k == rmpKey(lastOp.name, lastOp.all) IN
    IF k \in DOMAIN lastOp.before THEN lastOp.at - lastOp.before[k].ts ELSE -1

\* C6: an rmpGet(name2, flag2) that directly follows rmpSet(name, flag, v), before
\* the entry can expire, returns v exactly when the lower-cased names are equal and
\* the flags are equal.
C6_SetThenGet ==
    [][(lastOp.op = "set" /\ lastOp'.op = "get" /\ nowMs - lastOp.at < RMP_TTL_MS) =>
          ((lastOp'.value = lastOp.data) <=>
              (toLowerCase(lastOp'.name) = toLowerCase(lastOp.name) /\ lastOp'.all = lastOp.all))]_vars

\* a get under another spelling of the name just set returned the value set
C6_Witness ==
    /\ lastOp.op = "get" /\ lastOp.value # Null
    /\ \E k \in DOMAIN lastOp.before :
          /\ lastOp.before[k].data = lastOp.value
          /\ lastOp.before[k].ts = lastOp.at
          /\ k = rmpKey(lastOp.name, lastOp.all)
          /\ k # rmpKeyCaseKept(lastOp.name, lastOp.all)
    /\ rmpKey(lastOp.name, ~lastOp.all) \in DOMAIN lastOp.before

\* C7: a get on a key whose entry is older than the TTL returns null and removes
\* exactly that entry, every other entry staying as it was; nothing else removes an
\* entry: a step that removes one is a get on that entry's key, so a set or the
\* passing of time leaves an expired entry in the map.
C7_LazyEvictionOnly ==
    [][/\ \A k \in DOMAIN cache \ DOMAIN cache' :
              /\ lastOp'.seq = lastOp.seq + 1 /\ lastOp'.op = "get"
              /\ k = rmpKey(lastOp'.name, lastOp'.all)
              /\ nowMs - cache[k].ts >= RMP_TTL_MS
       /\ \A k \in DOMAIN cache :
              (/\ lastOp'.seq = lastOp.seq + 1 /\ lastOp'.op = "get"
               /\ k = rmpKey(lastOp'.name, lastOp'.all)
               /\ nowMs - cache[k].ts > RMP_TTL_MS)
              => /\ lastOp'.value = Null
                 /\ DOMAIN cache' = DOMAIN cache \ {k}
                 /\ Cardinality(DOMAIN cache') = Cardinality(DOMAIN cache) - 1
                 /\ \A x \in DOMAIN cache' : cache'[x] = cache[x]
       /\ (lastOp'.op # "get" \/ lastOp'.seq = lastOp.seq) =>
              \A k \in DOMAIN cache : k \in DOMAIN cache' /\ (cache'[k] # cache[k] => lastOp'.op = "set")
      ]_vars

\* a get found an entry older than the TTL next to another expired entry: it removed
\* the one it looked up and the other one is still in the map
C7_Witness ==
    /\ lastOp.op = "get" /\ lastOp.value = Null
    /\ LookedUpAge > RMP_TTL_MS
    /\ Cardinality(DOMAIN lastOp.before) = 2
    /\ Cardinality(DOMAIN cache) = 1
    /\ \A k \in DOMAIN cache : nowMs - cache[k].ts > RMP_TTL_MS /\ cache[k] = lastOp.before[k]

-----------------------------------------------------------------------------
(* The profile lookup: the claims *)

\* the payloads sent with a success status, and the values held by the cache
SuccessPayloads ==
    {reqs[i].sent[1].body : i \in {j \in DOMAIN reqs : reqs[j].sent # <<>> /\ reqs[j].sent[1].status = 200}}

CachedPayloads == {cache[k].data : k \in DOMAIN cache}

\* C9: in every success payload and in every cached value, top is null exactly when
\* count is 0, and when count > 0 top is a candidate and count = 1 + the number of
\* others.
C9_TopNullIffCountZero ==
    \A p \in SuccessPayloads \cup CachedPayloads :
        /\ p.top = Null <=> p.count = 0
        /\ p.count > 0 => /\ p.top # Null /\ p.top.url # NoValue
                          /\ p.count = 1 + Len(p.others)

\* one lookup was answered with count 0 and no top, and the cache holds a payload
\* with a top candidate and one other
C9_Witness ==
    /\ \E p \in SuccessPayloads : p.count = 0 /\ p.top = Null
    /\ \E p \in CachedPayloads : p.count = 2 /\ p.top # Null /\ Len(p.others) = 1

\* C10 as stated: a lookup whose search page holds no profile anchor is answered
\* with a success whose count is 0, top null and others empty, never with an error
\* status.
C10_NoAnchorIsSuccess ==
    \A i \in DOMAIN reqs :
        (reqs[i].found = 0 /\ reqs[i].sent # <<>>) =>
            /\ reqs[i].sent[1].status = 200
            /\ reqs[i].sent[1].body = emptyPayload(reqs[i].all)

\* C10 amended: a lookup whose search page holds no profile anchor is answered with
\* a success whose count is 0, top null and others empty, unless the 20s overall
\* timer of src/server.js fired before the page was read: then the answer is the 504
\* timeout error.  It is never answered with the 500 failure.
C10_NoAnchorSuccessOrTimeout ==
    \A i \in DOMAIN reqs :
        reqs[i].found = 0 =>
            /\ reqs[i].pc = "done"
            /\ \/ reqs[i].sent = <<Response(200, emptyPayload(reqs[i].all))>>
               \/ /\ reqs[i].build = "browser" /\ reqs[i].timer = "fired"
                  /\ reqs[i].sent = <<Response(504, [error |-> "RMP scrape timeout"])>>

\* the overall timer fired while the handler waited on a page without anchors: the
\* caller got the 504 and the page, read afterwards, held no candidate
C10_Witness ==
    \E i \in DOMAIN reqs :
        /\ reqs[i].build = "browser" /\ reqs[i].found = 0
        /\ reqs[i].timer = "fired"
        /\ reqs[i].sent = <<Response(504, [error |-> "RMP scrape timeout"])>>

-----------------------------------------------------------------------------
(* The pure functions: the claims *)

Pooled == probe.fn = "pool"

\* C11: when the all-institutions flag is false and no extracted candidate matches
\* the target institution, the pool is the unfiltered list of candidates, so that
\* the result is never empty (its count is the pool's length) when candidates were
\* found.
C11_FallbackToAllResults ==
    Pooled /\ ~probe.all =>
        /\ (\A k \in DOMAIN probe.results :
                ~(IF probe.build = "browser" THEN isConcordia(probe.results[k])
                  ELSE isConcordiaEarly(probe.results[k])))
               => probe.pool = probe.results
        /\ probe.results # <<>> => probe.pool # <<>>

\* the institution field of a candidate contains the target institution
schoolIsTarget(r) == r.school # NoValue /\ includes(toLowerCase(r.school), "concordia")

\* C12: when the all-institutions flag is false and at least one candidate's
\* institution field contains the target institution, every candidate of the pool
\* (the top and the others of the result) has an institution field that contains
\* it, whatever else the text of its card says.
C12_PoolOnlyTargetSchool ==
    Pooled /\ probe.build = "browser" /\ ~probe.all
        /\ (\E k \in DOMAIN probe.results : schoolIsTarget(probe.results[k]))
    => \A k \in DOMAIN probe.pool : schoolIsTarget(probe.pool[k])

UrlPrefix == "https://www.ratemyprofessors.com"

\* the link target of a candidate: its URL without the site prefix
hrefOfCandidate(r) == SubSeq(r.url, Len(UrlPrefix) + 1, Len(r.url))

\* the first anchor of the page with the link target
FirstAnchorTo(anchors, href) ==
    anchors[CHOOSE i \in DOMAIN anchors :
                /\ anchors[i].href = href
                /\ \A j \in 1..(i - 1) : anchors[j].href # href]

\* C14: in the list of candidates extracted from one search page, every candidate
\* has a profile URL, no two candidates have the same URL, and the candidate of a
\* link target is the one of the first anchor with that target, over all the
\* anchors the selectors return.
C14_UrlPresentAndUnique ==
    Pooled =>
        LET rs == probe.results IN
        /\ \A k \in DOMAIN rs :
               /\ rs[k].url # NoValue
               /\ startsWith(rs[k].url, UrlPrefix) /\ Len(rs[k].url) > Len(UrlPrefix)
               /\ rs[k] = candidateOf(FirstAnchorTo(probe.page.anchors, hrefOfCandidate(rs[k])))
        /\ \A j, k \in DOMAIN rs : j # k => rs[j].url # rs[k].url

\* a page with two anchors to the same target was read: one candidate, the first
C14_Witness ==
    /\ Pooled
    /\ Len(probe.page.anchors) = 2
    /\ probe.page.anchors[1].href = probe.page.anchors[2].href
    /\ probe.page.anchors[1] # probe.page.anchors[2]
    /\ probe.results = <<candidateOf(probe.page.anchors[1])>>

Extracted == probe.fn = "extract"

InfoFields == {"name", "dept", "school", "quality", "difficulty", "wouldTakeAgain", "numRatings"}

\* the values the strategies would give a field, in the order of the strategies
candidatesOf(copy, html, f) ==
    LET t == html.teacher
        would == IF isNegative(t.would) THEN NoValue ELSE t.would
    IN IF copy = "cascade"
       THEN CASE f = "name" -> <<t.name, html.h1, html.ogName>>
              [] f = "dept" -> <<t.dept, html.deptText>>
              [] f = "school" -> <<t.school>>
              [] f = "quality" -> <<t.quality, html.qSel, html.outOf5>>
              [] f = "difficulty" -> <<t.difficulty, html.diffScope, html.levelOfDifficulty>>
              [] f = "wouldTakeAgain" -> <<would, html.wouldText>>
              [] f = "numRatings" -> <<t.numRatings, html.basedOn>>
       ELSE CASE f = "name" -> <<t.name, html.h1>>
              [] f = "dept" -> <<t.dept>>
              [] f = "school" -> <<t.school>>
              [] f = "quality" -> <<t.quality, html.overallQuality>>
              [] f = "difficulty" -> <<t.difficulty, html.levelOfDifficulty>>
              [] f = "wouldTakeAgain" -> <<would>>
              [] f = "numRatings" -> <<t.numRatings, html.basedOn>>

\* C13: in extractProfFromProfileHtml each field is resolved in the order embedded
\* JSON, DOM selectors, full-text patterns: the final value of a field is the one
\* of the first strategy that yields it, and a field set after the first or the
\* second strategy keeps that value to the end (a negative would-take-again
\* percentage does not count as set).
C13_EarlierStrategyWins ==
    Extracted =>
        \A f \in InfoFields :
            /\ probe.info[f] = pickFirst(candidatesOf(probe.copy, probe.html, f))
            /\ ~unset(probe.first[f]) /\ ~(f = "wouldTakeAgain" /\ isNegative(probe.first[f]))
                   => probe.info[f] = probe.first[f]
            /\ ~unset(probe.second[f]) /\ ~(f = "wouldTakeAgain" /\ isNegative(probe.second[f]))
                   => probe.info[f] = probe.second[f]

\* the embedded data gives quality 4.5, the selector would give 3.9 and the text
\* 2.0: the quality is 4.5
C13_Witness ==
    /\ Extracted
    /\ probe.html.teacher.quality = "4.5"
    /\ probe.html.qSel = "3.9"
    /\ probe.html.outOf5 = "2.0"
    /\ probe.html.overallQuality = "1.7"
    /\ probe.info.quality = "4.5"

\* C15: a would-take-again percentage read as a negative number from the embedded
\* data is never reported: the extracted field is unknown unless a later strategy
\* finds a value, and then it is that value; it is never the negative number and
\* never 0.
C15_NegativeWouldIsUnknown ==
    Extracted /\ isNegative(probe.html.teacher.would) =>
        /\ ~isNegative(probe.info.wouldTakeAgain)
        /\ probe.info.wouldTakeAgain # "0"
        /\ probe.info.wouldTakeAgain =
               (IF probe.copy = "cascade" THEN probe.html.wouldText ELSE NoValue)

\* a page whose embedded data says -1 and whose text says nothing was read by
\* the copy that pulls the signed number: the field is unknown
C15_Witness ==
    /\ Extracted
    /\ probe.copy = "pull"
    /\ probe.html.teacher.would = "-1"
    /\ probe.first.wouldTakeAgain = "-1"
    /\ probe.html.wouldText = NoValue
    /\ probe.info.wouldTakeAgain = NoValue

\* C16: each profile lookup gets at most one response; when the overall timer has
\* fired, the response is the timeout error and nothing else, whatever the scrape
\* does afterwards; when the scrape (or the cache, or the validation) has
\* responded, the timer is cleared or was never armed, so it has not fired and
\* cannot fire.
C16_AtMostOneResponse ==
    \A i \in DOMAIN reqs :
        /\ Len(reqs[i].sent) <= 1
        /\ reqs[i].timer = "fired"
               => reqs[i].sent = <<Response(504, [error |-> "RMP scrape timeout"])>>
        /\ reqs[i].sent # <<>> /\ reqs[i].sent[1].status # 504
               => reqs[i].timer \in {"none", "cleared"}

\* the timer fired while the scrape was running, and the scrape has since run to
\* its end: the only response is the timeout error
C16_Witness ==
    \E i \in DOMAIN reqs :
        /\ reqs[i].timer = "fired"
        /\ reqs[i].pc = "done"
        /\ reqs[i].found > 0
        /\ reqs[i].escaped
        /\ reqs[i].sent = <<Response(504, [error |-> "RMP scrape timeout"])>>

\* C17: while a lookup is reading a candidate's profile page, whatever happens to
\* that page (a failure, a timeout), the response the lookup then sends is a
\* success: the failure of the profile page is never answered with an error.
C17_ProfileFailureNotSurfaced ==
    [][\A i \in DOMAIN reqs :
           reqs[i].pc \in {"enrich", "profile"} /\ reqs[i].sent = <<>> /\ reqs'[i].sent # <<>>
               => reqs'[i].sent[1].status = 200]_vars

-----------------------------------------------------------------------------
(* The service as a whole: the claims *)

\* a parameter that is missing or holds only spaces
isBlank(s) == removeSpaces(s) = ""

BadRequest(r) == r.status = 400

\* C18: a discussion request with a blank course and a profile lookup with a blank
\* name are answered 400 at once: no forum search, no timer, no page are started
\* for them, then or later, and the cache is as it was; no request with a course
\* or a name is ever answered 400, so that a 400 is not an upstream failure.
C18_BlankRejectedBeforeIo ==
    [][/\ rq' # NoReq /\ isBlank(rq'.course) =>
              /\ responses' = <<errResponse(400)>>
              /\ tasks' = <<>> /\ overall'.timer = "none" /\ search'.state = "pending"
              /\ rq = NoReq => cache' = cache
       /\ rq' # NoReq /\ ~isBlank(rq'.course) =>
              \A k \in DOMAIN responses' : ~BadRequest(responses'[k])
       /\ \A i \in DOMAIN reqs' :
              IF isBlank(reqs'[i].name)
              THEN /\ reqs'[i].sent = <<Response(400, [error |-> "Missing professor name"])>>
                   /\ reqs'[i].pc = "done" /\ reqs'[i].timer = "none"
                   /\ reqs'[i].found = -1 /\ reqs'[i].href = NoValue
                   /\ i \notin DOMAIN reqs => cache' = cache
              ELSE \A k \in DOMAIN reqs'[i].sent : ~BadRequest(reqs'[i].sent[k])
      ]_vars

\* a lookup with a blank name was rejected while the cache held the answer of an
\* earlier lookup, and a discussion request with a blank course was rejected
C18_Witness ==
    /\ Len(reqs) = 2
    /\ reqs[2].sent = <<Response(400, [error |-> "Missing professor name"])>>
    /\ reqs[1].sent # <<>> /\ reqs[1].sent[1].status = 200
    /\ cache # <<>>
    /\ rq # NoReq /\ rq.course = ""
    /\ responses = <<errResponse(400)>>

-----------------------------------------------------------------------------
(* The topic classifier: the claim *)

Classified == probe.fn = "topic"

\* the classes whose pattern matches the question, whatever its case
matchingClasses(q) ==
    {c \in {"instructor", "exam", "tips"} :
        \E w \in (IF c = "instructor"
                  THEN {"best", "who to take", "avoid", "teacher", "prof", "instructor"}
                  ELSE IF c = "exam"
                  THEN {"final", "midterm", "exam", "test", "quiz", "format", "curve", "grading"}
                  ELSE {"tip", "advice", "study", "assignment", "lab", "labs", "resource",
                        "textbook", "notes"}) :
            includes(toLowerCase(q), w)}

\* C19: inferTopicFromQuestion returns one of instructor, exam, tips, difficulty:
\* the first of instructor, exam, tips whose pattern matches the question,
\* difficulty when none does (an empty question included); a question asked
\* twice gets the same topic twice.
C19_FirstMatchingClass ==
    Classified =>
        LET m == matchingClasses(probe.q) IN
        /\ probe.topic \in {"instructor", "exam", "tips", "difficulty"}
        /\ probe.topic = (IF "instructor" \in m THEN "instructor"
                          ELSE IF "exam" \in m THEN "exam"
                          ELSE IF "tips" \in m THEN "tips"
                          ELSE "difficulty")
        /\ probe.prev.q = probe.q => probe.prev.topic = probe.topic

\* a question matching the three patterns was classified twice, as instructor
C19_Witness ==
    /\ Classified
    /\ matchingClasses(probe.q) = {"instructor", "exam", "tips"}
    /\ probe.prev.q = probe.q
    /\ probe.topic = "instructor"

-----------------------------------------------------------------------------
(* The profile lookup and its cache: the claim *)

keyOf(r) == rmpKey(r.name, r.all)

Succeeded(r) == r.pc = "done" /\ r.sent # <<>> /\ r.sent[1].status = 200

\* the keys at which two maps differ
changedKeys(c, d) ==
    {k \in DOMAIN c \cup DOMAIN d : k \notin DOMAIN c \/ k \notin DOMAIN d \/ c[k] # d[k]}

-----------------------------------------------------------------------------
(* Progress: one accepted request, of either route, under the scheduling of   *)
(* the event loop.  Time passes and a timer that is due fires; a call to the  *)
(* forum provider, the browser or the ratings site may never complete, so no  *)
(* fairness is stated for the steps that stand for its completion.            *)

\* a timer of the discussion request is armed: the overall one, or the one of a
\* search that has not settled
RedditTimerArmed ==
    \/ overall.timer = "armed"
    \/ \E i \in DOMAIN tasks : tasks[i].phase = "search" /\ tasks[i].race = "pending"

\* time passes while a timer of the discussion request is armed and none is due
Clock ==
    /\ RedditTimerArmed
    /\ ~(overall.timer = "armed" /\ nowSec >= overall.deadline)
    /\ \A i \in DOMAIN tasks :
          ~(tasks[i].phase = "search" /\ tasks[i].race = "pending" /\ nowSec >= tasks[i].deadline)
    /\ nowSec' = nowSec + TickSec
    /\ UNCHANGED <<rq, tasks, search, overall, responses, evts, ticks>>
    /\ UNCHANGED <<rmpVars, probe>>

\* a timer of a lookup is armed: the overall one, or the abort timer of a fetch
RmpTimerArmed ==
    \E i \in DOMAIN reqs : reqs[i].timer = "armed" \/ reqs[i].pc \in {"search", "profile"}

\* time passes while a timer of a lookup is armed and none is due
RmpClock ==
    /\ RmpTimerArmed
    /\ \A i \in DOMAIN reqs : ~(reqs[i].timer = "armed" /\ nowMs >= reqs[i].deadline)
    /\ \A i \in DOMAIN reqs : ~(reqs[i].pc \in {"search", "profile"} /\ nowMs >= reqs[i].abortAt)
    /\ nowMs' = nowMs + RmpTickMs
    /\ UNCHANGED <<cache, lastOp, reqs, rmpTicks>>
    /\ UNCHANGED <<redditVars, probe>>

\* the listings and search pages of the progress runs
LiveListings == {<<>>, <<PostPool[1]>>}

LivePages == {page \in PageInputs : Len(page.anchors) <= 1}

NextLive ==
    \/ \E route \in {"search", "answer"} :
           NoLookup /\ Request(route, "CS 1", "", "is it hard", [given |-> FALSE, n |-> 0],
                               [given |-> FALSE, n |-> 0], SubSeq(ForumNames, 1, 2))
    \/ \E i \in 1..MaxForums : NoLookup /\ GetSubredditOk(i)
    \/ \E i \in 1..MaxForums : NoLookup /\ GetSubredditThrows(i)
    \/ \E i \in 1..MaxForums, listing \in LiveListings : NoLookup /\ SearchReturns(i, listing)
    \/ \E i \in 1..MaxForums : NoLookup /\ SearchThrows(i)
    \/ \E i \in 1..MaxForums : NoLookup /\ PerCallTimer(i)
    \/ NoLookup /\ OverallTimer
    \/ NoLookup /\ Clock
    \/ \E build \in Builds :
           NoDiscussion /\ NoLookup /\ RmpRequest(build, "Ann Lee", FALSE)
    \/ \E i \in 1..MaxRmpReqs : NoDiscussion /\ RmpGotoOk(i)
    \/ \E i \in 1..MaxRmpReqs : NoDiscussion /\ RmpScrapeThrows(i)
    \/ \E i \in 1..MaxRmpReqs, page \in LivePages : NoDiscussion /\ RmpEvaluate(i, page)
    \/ \E i \in 1..MaxRmpReqs, extra \in ExtraInputs : NoDiscussion /\ RmpEnrichOk(i, extra)
    \/ \E i \in 1..MaxRmpReqs : NoDiscussion /\ RmpEnrichFails(i)
    \/ \E i \in 1..MaxRmpReqs : NoDiscussion /\ RmpOverallTimer(i)
    \/ \E i \in 1..MaxRmpReqs : NoDiscussion /\ FetchHeaders(i)
    \/ \E i \in 1..MaxRmpReqs, page \in LivePages : NoDiscussion /\ FetchSearchOk(i, page)
    \/ \E i \in 1..MaxRmpReqs, info \in InfoInputs : NoDiscussion /\ FetchProfileOk(i, info)
    \/ \E i \in 1..MaxRmpReqs : NoDiscussion /\ FetchFails(i)
    \/ \E i \in 1..MaxRmpReqs : NoDiscussion /\ FetchAbort(i)
    \/ NoDiscussion /\ RmpClock

\* a step of the event loop that depends on no one else: a due timer of the
\* discussion request fires, or its clock goes on
RedditTimerStep ==
    NoLookup /\ (OverallTimer \/ Clock \/ \E i \in 1..MaxForums : PerCallTimer(i))

\* the same for a lookup: its overall timer or the abort timer of its fetch
RmpTimerStep ==
    NoDiscussion /\ (RmpClock \/ \E i \in 1..MaxRmpReqs : RmpOverallTimer(i) \/ FetchAbort(i))

\* the event loop runs every timer that is due, and the clock goes on
TimersFire == WF_vars(RedditTimerStep) /\ WF_vars(RmpTimerStep)

SpecLive == Init /\ [][NextLive]_vars /\ TimersFire

-----------------------------------------------------------------------------
(* Claims C21 to C30 *)

\* the tasks of the request whose call to subreddit.search has not settled
InFlight == {i \in DOMAIN tasks : tasks[i].call = "inflight"}

\* C21: within one discussion request no two search calls are in flight at the same
\* time for the same forum, whatever the configured forum list is (a list that
\* names one forum twice included).
C21_OneCallPerForum ==
    \A i, j \in InFlight : i # j => rq.subs[i] # rq.subs[j]

\* { count, top, others, school, all } with top null exactly when count is 0
CompleteResult(p) ==
    /\ DOMAIN p = {"count", "top", "others", "school", "all"}
    /\ p.count \in Nat
    /\ p.top = Null <=> p.count = 0
    /\ p.count = (IF p.top = Null THEN 0 ELSE 1) + Len(p.others)
    /\ p.school = SCHOOL_NAME
    /\ p.all \in BOOLEAN

\* the payload that the end of the try block builds from the pool of request r
payloadOf(r) ==
    IF r.build = "browser"
    THEN IF r.pool = <<>> THEN emptyPayload(r.all) ELSE scoredPayload(r.pool, r.name, r.all)
    ELSE r.sent[1].body

\* request i reaches the end of its handler in this step
Completes(i) == i \in DOMAIN reqs /\ reqs[i].pc # "done" /\ reqs'[i].pc = "done"

\* C22: under every interleaving of concurrent lookups (two misses of one key, a
\* lookup that goes on after its caller got the overall timeout) each cache entry is
\* a store time with a complete result whose flag is the one of its key; an entry
\* changes only by the write of a lookup of its key that completes in that step, and
\* it is then that lookup's payload as a whole, stamped with the time of the write,
\* so the one entry of a key is the last completed write; a lookup that answers
\* with a result it computed leaves that result in the cache.
C22_CacheHoldsLastWrite ==
    /\ [](\A k \in DOMAIN cache :
             /\ DOMAIN cache[k] = {"ts", "data"}
             /\ cache[k].ts \in 0..nowMs
             /\ CompleteResult(cache[k].data)
             /\ \E i \in DOMAIN reqs : keyOf(reqs[i]) = k /\ reqs[i].all = cache[k].data.all)
    /\ [][/\ \A k \in changedKeys(cache, cache') :
                \/ k \notin DOMAIN cache' /\ \E j \in DOMAIN reqs' \ DOMAIN reqs : keyOf(reqs'[j]) = k
                \/ /\ k \in DOMAIN cache'
                   /\ \E i \in DOMAIN reqs :
                         /\ Completes(i) /\ keyOf(reqs[i]) = k
                         /\ cache'[k] = [ts |-> nowMs, data |-> payloadOf(reqs'[i])]
          /\ \A i \in DOMAIN reqs :
                (Completes(i) /\ Succeeded(reqs'[i])) =>
                    cache'[keyOf(reqs[i])] = [ts |-> nowMs, data |-> reqs'[i].sent[1].body]
         ]_vars

\* two lookups of one key missed the cache together; the second answered first with
\* its result, then the first, whose caller already had the overall timeout, ended
\* and its different result replaced the entry
C22_Witness ==
    /\ Len(reqs) = 2
    /\ keyOf(reqs[1]) = keyOf(reqs[2])
    /\ Succeeded(reqs[2]) /\ reqs[2].found > 0
    /\ reqs[1].pc = "done" /\ reqs[1].sent[1].status = 504 /\ reqs[1].escaped
    /\ keyOf(reqs[1]) \in DOMAIN cache
    /\ cache[keyOf(reqs[1])].data = payloadOf(reqs[1])
    /\ cache[keyOf(reqs[1])].data # reqs[2].sent[1].body
    /\ cache[keyOf(reqs[1])].ts > 0

\* the retained posts of a scoring probe
Scored == IF probe.fn = "score" THEN {probe.scored[k] : k \in DOMAIN probe.scored} ELSE {}

\* the title part of a scored post's relevance, in points
titlePointsOf(s) == titleScoreTable[probe.searchQ][s.title]

\* the recency part: the relevance less the title part
recencyOf(s) == s.relevance - titlePointsOf(s) * RelUnit

\* the age of a scored post in seconds (daysOld times the seconds of a day)
ageOf(s) == probe.now - s.created_utc

\* C23: the recency term of a post's relevance is max(0, 10 - daysOld/30) (here in
\* units of 1/RelUnit point): it is never negative, it is 0 for every post 300 or
\* more days old, and of two posts with the same title points the one with the
\* smaller age never has the lower relevance.
C23_RecencyTerm ==
    /\ \A s \in Scored :
          /\ recencyOf(s) >= 0
          /\ ageOf(s) >= 300 * SecondsPerDay => recencyOf(s) = 0
          /\ recencyOf(s) * 30 = Max(0, 10 * 30 * RelUnit - ageOf(s) * 30)
    /\ \A s, t \in Scored :
          (titlePointsOf(s) = titlePointsOf(t) /\ ageOf(s) <= ageOf(t))
              => s.relevance >= t.relevance

\* two retained posts with the same title, one a day old with a positive recency
\* term and a strictly higher relevance, the other 301 days old with recency 0
C23_Witness ==
    \E s, t \in Scored :
        /\ s.title = t.title
        /\ ageOf(s) = SecondsPerDay /\ recencyOf(s) > 0
        /\ ageOf(t) = 301 * SecondsPerDay /\ recencyOf(t) = 0
        /\ s.relevance > t.relevance

\* the position of a scored post in the flattened list (forum order, then the
\* provider's order within a forum)
flatPos(x) == CHOOSE i \in DOMAIN probe.flat : probe.flat[i].subreddit = x.subreddit /\ probe.flat[i].id = x.id

\* the retained posts that the result leaves out
Dropped == {probe.scored[k] : k \in DOMAIN probe.scored} \ {probe.result[k] : k \in DOMAIN probe.result}

\* C24: the posts returned by a discussion search are retained posts in
\* non-increasing order of relevance, posts of equal relevance in the order in
\* which they were flattened, and truncation comes after sorting: no dropped post
\* has a higher relevance than a returned one.
C24_SortedStableThenTruncated ==
    probe.fn = "search" =>
        LET res == probe.result IN
        /\ \A k \in DOMAIN res : \E j \in DOMAIN probe.scored : probe.scored[j] = res[k]
        /\ \A k, l \in DOMAIN res :
              k < l => /\ res[k].relevance >= res[l].relevance
                       /\ res[k].relevance = res[l].relevance => flatPos(res[k]) < flatPos(res[l])
        /\ \A d \in Dropped : \A k \in DOMAIN res : d.relevance <= res[k].relevance
        /\ probe.limit >= 0 => Len(res) = Min(probe.limit, Len(probe.scored))

\* the second forum returned the post of highest relevance, the first forum two
\* posts of equal relevance, and with a limit of 2 the result is the highest post
\* and then the first of the two equal ones, the other being dropped
C24_Witness ==
    /\ probe.fn = "search" /\ probe.limit = 2
    /\ Len(probe.scored) = 3 /\ Len(probe.result) = 2
    /\ probe.scored[1].relevance = probe.scored[2].relevance
    /\ probe.scored[3].relevance > probe.scored[1].relevance
    /\ probe.result = <<probe.scored[3], probe.scored[1]>>
    /\ Dropped = {probe.scored[2]}

\* the lower-cased title is one of the five spellings of the course, lower-cased
isCourseVariant(title, course) ==
    \E v \in courseSpellings(course) : toLowerCase(title) = toLowerCase(v)

\* the number of words of the topic vocabulary that the lower-cased title contains
vocabularyHits(title) ==
    Cardinality({i \in DOMAIN topicKeywords : includes(toLowerCase(title), topicKeywords[i])})

\* C25: the title part of a retained post's relevance is 5 for each word of the
\* topic vocabulary contained in the lower-cased title, plus 10 exactly when the
\* lower-cased title equals a course-code variant of the queried course, whatever
\* topic is queried.
C25_TitlePoints ==
    \A s \in Scored :
        s.relevance - recencyScore(s, probe.now) =
            (5 * vocabularyHits(s.title)
               + (IF isCourseVariant(s.title, probe.course) THEN 10 ELSE 0)) * RelUnit

\* the rating count of a candidate as a number: 0 when missing or without a digit
ratingCountOf(r) == IF r.numRatings = NoValue THEN 0 ELSE digitsValue(r.numRatings, 0)

\* the score the claim states for candidate r and query name q
statedScore(r, q) ==
    LET n == toLowerCase(r.name)
        query == toLowerCase(q)
        count == ratingCountOf(r)
    IN (IF n = query THEN 3 ELSE 0) + (IF startsWith(n, query) THEN 2 ELSE 0)
       + (IF includes(n, query) THEN 1 ELSE 0)
       + Min(2, count \div 10) + (IF count > 0 THEN 1 ELSE 0)

\* the position of a candidate in the pool, the order of extraction
poolPos(r) == CHOOSE i \in DOMAIN probe.pool : probe.pool[i] = r

\* C26: each pooled candidate scores 3 for a name equal to the query, 2 for a name
\* starting with it, 1 for a name containing it (case ignored), min(2,
\* floor(ratingCount/10)) and 1 for a positive ratingCount; the candidates are
\* output in non-increasing score order, ties in extraction order; top is the first
\* and others the rest, so no candidate of others scores higher than top.
C26_CandidateScoreAndOrder ==
    probe.fn = "rank" =>
        LET out == <<probe.payload.top>> \o probe.payload.others IN
        /\ \A k \in DOMAIN probe.pool : probe.scores[k] = statedScore(probe.pool[k], probe.name)
        /\ probe.payload.count = Len(probe.pool) /\ Len(out) = Len(probe.pool)
        /\ \A k \in DOMAIN probe.pool : \E l \in DOMAIN out : out[l] = probe.pool[k]
        /\ \A k, l \in DOMAIN out :
              k < l => /\ statedScore(out[k], probe.name) >= statedScore(out[l], probe.name)
                       /\ statedScore(out[k], probe.name) = statedScore(out[l], probe.name)
                             => poolPos(out[k]) < poolPos(out[l])
        /\ \A o \in DOMAIN probe.payload.others :
              statedScore(probe.payload.others[o], probe.name)
                  <= statedScore(probe.payload.top, probe.name)

\* a pool extracted as a candidate named otherwise with 9 ratings, one whose name
\* only contains the query, and the queried name with 25 ratings: the last is top
\* with 9 points, the other two tie at 1 point and keep their order
C26_Witness ==
    /\ probe.fn = "rank" /\ probe.name = "ann lee" /\ Len(probe.pool) = 3
    /\ probe.scores = <<1, 1, 9>>
    /\ probe.payload.top = probe.pool[3]
    /\ probe.payload.others = <<probe.pool[1], probe.pool[2]>>

\* the age of the rendered post in whole days: rounded, at least 1
wholeDays == Max(1, round(probe.now - probe.created_utc, SecondsPerDay))

\* C27 as stated: the age in whole days is rendered 'Nd ago' when under 7 days,
\* 'Nw ago' when under 8 weeks (every age from 7 to 55 days), 'Nmo ago' when under
\* 18 months of 30 days, 'Ny ago' otherwise, N being the rounded count in the unit.
C27_UnitByAge ==
    probe.fn = "relTime" =>
        probe.when =
            IF wholeDays < 7 THEN ToString(wholeDays) \o "d ago"
            ELSE IF wholeDays < 8 * 7 THEN ToString(round(wholeDays, 7)) \o "w ago"
            ELSE IF wholeDays < 18 * 30 THEN ToString(round(wholeDays, 30)) \o "mo ago"
            ELSE ToString(round(wholeDays, 365)) \o "y ago"

\* C27: the age in whole days is rendered 'Nd ago' when under 7 days, 'Nw ago' when
\* the rounded count of weeks is under 8 (ages of 7 to 52 days), 'Nmo ago' when the
\* rounded count of 30-day months is under 18 (ages of 53 to 524 days), 'Ny ago'
\* otherwise, N being the rounded count in the unit.
C27_UnitByRoundedCount ==
    probe.fn = "relTime" =>
        /\ probe.when =
              IF wholeDays < 7 THEN ToString(wholeDays) \o "d ago"
              ELSE IF round(wholeDays, 7) < 8 THEN ToString(round(wholeDays, 7)) \o "w ago"
              ELSE IF round(wholeDays, 30) < 18 THEN ToString(round(wholeDays, 30)) \o "mo ago"
              ELSE ToString(round(wholeDays, 365)) \o "y ago"
        /\ (7 <= wholeDays /\ wholeDays <= 52) => round(wholeDays, 7) < 8
        /\ (53 <= wholeDays /\ wholeDays <= 524) =>
              round(wholeDays, 7) >= 8 /\ round(wholeDays, 30) < 18
        /\ wholeDays >= 525 => round(wholeDays, 30) >= 18

\* a post 53 days old, under 8 weeks, is rendered in months
C27_Witness ==
    /\ probe.fn = "relTime"
    /\ probe.now - probe.created_utc = 53 * SecondsPerDay
    /\ probe.when = "2mo ago"

\* s with every run of whitespace replaced by one hyphen
RECURSIVE hyphenateRuns(_)
hyphenateRuns(s) ==
    IF IndexOfFrom(s, " ", 1) = 0 THEN s ELSE hyphenateRuns(replaceFirstSpaceRun(s, "-"))

\* v, bare or in double quotes, stands between "(" or " OR " and " OR " or ")" in q
isDisjunct(q, v) ==
    \E open \in {"(", " OR "}, close \in {" OR ", ")"}, quote \in {"", "\""} :
        includes(q, open \o quote \o v \o quote \o close)

\* s ends with t
endsWith(s, t) == Len(s) >= Len(t) /\ SubSeq(s, Len(s) - Len(t) + 1, Len(s)) = t

\* C28: for every course the synthesized search expression has as disjuncts the
\* course as given, with all whitespace removed, with every whitespace run replaced
\* by a hyphen, lower-cased, and lower-cased with all whitespace removed; it is
\* joined by AND with the keyword disjunction of the topic, which is empty for an
\* unknown topic.
C28_FiveVariantsAndTopic ==
    probe.fn = "synth" =>
        /\ \A v \in {probe.course, removeSpaces(probe.course), hyphenateRuns(probe.course),
                     toLowerCase(probe.course), removeSpaces(toLowerCase(probe.course))} :
              isDisjunct(probe.searchQ, v)
        /\ IF probe.topic \in Topics
           THEN includes(probe.searchQ, ") AND (") /\ endsWith(probe.searchQ, ")")
           ELSE endsWith(probe.searchQ, ") AND ")

\* the fields of a candidate that its profile page can provide
EnrichedFields == {"quality", "difficulty", "numRatings", "wouldTakeAgain", "dept"}

\* C29: enriching a candidate from its profile page only fills the fields the search
\* page left missing: a quality, difficulty, rating count, would-take-again or
\* department value that the candidate already has is the same after the step.
C29_EnrichOnlyFillsMissing ==
    [][\A i \in DOMAIN reqs :
          reqs[i].pc = "enrich" =>
              \A k \in DOMAIN reqs[i].pool : \A f \in EnrichedFields :
                  reqs[i].pool[k][f] # NoValue => reqs'[i].pool[k][f] = reqs[i].pool[k][f]
      ]_vars

\* lookup i has been accepted / has been answered
Accepted(i) == i \in DOMAIN reqs
Answered(i) == i \in DOMAIN reqs /\ reqs[i].sent # <<>>

\* C30: every accepted request, a discussion query with a course or a profile
\* lookup with a name, eventually receives a response (success, timeout error or
\* failure), even when an external call never completes.
C30_EveryRequestAnswered ==
    /\ (rq # NoReq) ~> (responses # <<>>)
    /\ \A i \in 1..MaxRmpReqs : Accepted(i) ~> Answered(i)

=============================================================================
